---- MODULE Spec2Model ----
(***************************************************************************)
(* A model of checkiid.py: the line classifiers, the block-range indexer,  *)
(* the descriptor registry, the patch driver parsePatch and the reporting  *)
(* stage of main.                                                          *)
(*                                                                         *)
(* A line of text is a sequence of lexemes (strings).  One lexeme stands   *)
(* for a run of characters the regular expressions of the program never    *)
(* split: "+", "-", " ", "@@", "interface", a name, a number...  The       *)
(* regular expressions are evaluated over lexemes exactly as the program   *)
(* evaluates them over characters.                                         *)
(*                                                                         *)
(* A Python value that may be None is a sequence of length at most one:    *)
(* None is <<>> and a value v is <<v>>.                                    *)
(***************************************************************************)
EXTENDS Integers, Sequences, FiniteSets, TLC

(***************************************************************************)
(* Bounds of the model.                                                    *)
(***************************************************************************)
\* The longest patch (in lines) parsePatch reads when its lines are any lines.
MaxPatchLen == 4

\* The longest patch (in lines) of the specifications that keep the patch and
\* draw it from the few lines of one scenario.
MaxScenarioLen == 6

\* The longest file (in lines) of the files whose lines are any lines of
\* blocks.
MaxFileLen == 4

(***************************************************************************)
(* Python values.                                                          *)
(***************************************************************************)
None == <<>>

Some(v) == <<v>>

IsNone(o) == o = <<>>

\* Python truthiness of an optional string: None and "" are both false.
Truthy(o) == o # <<>> /\ o[1] # ""

(***************************************************************************)
(* Lexeme helpers.                                                         *)
(***************************************************************************)
IsSpace(t) == t = " "

\* The position of the first lexeme at or after i that is not white space
\* (Len(l) + 1 when there is none): what (\s)* consumes greedily.
RECURSIVE SkipSpaces(_, _)
SkipSpaces(l, i) ==
  IF i <= Len(l) /\ IsSpace(l[i]) THEN SkipSpaces(l, i + 1) ELSE i

\* str.rstrip(): the line without its trailing white space.
RECURSIVE RStrip(_)
RStrip(l) ==
  IF Len(l) > 0 /\ IsSpace(l[Len(l)]) THEN RStrip(SubSeq(l, 1, Len(l) - 1)) ELSE l

\* The characters of a lexeme sequence as one string.
RECURSIVE Join(_)
Join(l) == IF l = <<>> THEN "" ELSE l[1] \o Join(Tail(l))

\* The positions of lexeme t in l.
Positions(l, t) == {i \in 1..Len(l) : l[i] = t}

Max(S) == CHOOSE x \in S : \A y \in S : y <= x

Min(S) == CHOOSE x \in S : \A y \in S : x <= y

(***************************************************************************)
(* Line classifiers (checkiid.py 430-780).                                 *)
(***************************************************************************)
\* isAdditionLine without the test of 739-741 for three pluses.
isAdditionLine_AnyPlus(aLine) ==
  Len(aLine) >= 1 /\ aLine[1] = "+"

\* re.search("^[\+]{1}") and not re.search("^[\+]{3}")
isAdditionLine(aLine) ==
  /\ Len(aLine) >= 1 /\ aLine[1] = "+"
  /\ ~(Len(aLine) >= 3 /\ aLine[2] = "+" /\ aLine[3] = "+")

\* re.search("^[\-]{1}") and not re.search("^[\-]{3}")
isRemovalLine(aLine) ==
  /\ Len(aLine) >= 1 /\ aLine[1] = "-"
  /\ ~(Len(aLine) >= 3 /\ aLine[2] = "-" /\ aLine[3] = "-")

isLineChange(aLine) == isAdditionLine(aLine) \/ isRemovalLine(aLine)

\* re.search("^[\-](\s)*\}") on a removal line
isEndOfInterfaceRemoval(aLine) ==
  /\ isRemovalLine(aLine)
  /\ LET i == SkipSpaces(aLine, 2) IN i <= Len(aLine) /\ aLine[i] = "}"

\* re.search("^[\-\+](.*)"): the text after the marker, None for other lines.
extractContentFromChangeLine(aLine) ==
  IF ~isRemovalLine(aLine) /\ ~isAdditionLine(aLine) THEN None
  ELSE Some(SubSeq(aLine, 2, Len(aLine)))

\* re.search("^@@")
isContextLine(aLine) == Len(aLine) >= 1 /\ aLine[1] = "@@"

\* re.search("uuid\((.*)\)"): the text between "uuid(" and the last ")".
extractIID(aLine) ==
  LET opens == Positions(aLine, "uuid(")
      closes == Positions(aLine, ")")
  IN IF opens # {} /\ closes # {} /\ Min(opens) < Max(closes)
     THEN Some(Join(SubSeq(aLine, Min(opens) + 1, Max(closes) - 1)))
     ELSE None

isLineIIDAddition(aLine) ==
  Truthy(extractIID(aLine)) /\ Len(aLine) >= 1 /\ aLine[1] = "+"

isLineIIDDefinition(aLine) == Truthy(extractIID(aLine))

isLineIIDRemoval(aLine) ==
  Truthy(extractIID(aLine)) /\ Len(aLine) >= 1 /\ aLine[1] = "-"

\* re.search("^(---)\ /dev/null")
doesLineSignifyCreation(aLine) ==
  Len(aLine) >= 5 /\ SubSeq(aLine, 1, 5) = <<"-", "-", "-", " ", "/dev/null">>

\* re.search("^(\+\+\+)\ /dev/null")
doesLineSignifyDeletion(aLine) ==
  Len(aLine) >= 5 /\ SubSeq(aLine, 1, 5) = <<"+", "+", "+", " ", "/dev/null">>

(***************************************************************************)
(* Lexeme classes of the character classes the header patterns use.        *)
(***************************************************************************)
\* ([a-zA-Z0-9]+/): one directory of a path.
DirLexemes == {"dir/", "lib/"}

\* ([a-zA-Z0-9]+\.idl): the name of an IDL file.
IdlNameLexemes == {"foo.idl", "bar.idl"}

\* ([a-zA-Z0-9]+\.[a-zA-Z0-9]): the start of any file name with an extension.
FileNameLexemes == IdlNameLexemes \cup {"x.cpp"}

\* Lexemes whose last character is ';'.
SemicolonEnded == {";", "long getValue();", "void f();", "void g();", "long X = 1;"}

\* The position after the run of directory lexemes that starts at i.
RECURSIVE SkipDirs(_, _)
SkipDirs(l, i) ==
  IF i <= Len(l) /\ l[i] \in DirLexemes THEN SkipDirs(l, i + 1) ELSE i

\* Where "<x>/(dir/)+name" with x the lexeme side ("a/" or "b/") starting at i
\* ends (the position of the name), 0 when the line has no such path at i.
PathNameAt(l, i, side, names) ==
  IF i <= Len(l) /\ l[i] = side
  THEN LET n == SkipDirs(l, i + 1)
       IN IF n > i + 1 /\ n <= Len(l) /\ l[n] \in names THEN n ELSE 0
  ELSE 0

\* re.search("^diff\ --git\ a/((dir/)+(name\.idl))\ b/((dir/)+(name\.idl))"):
\* os.path.join(aRootPath, match.group(4)), as the path relative to the root.
extractIDLFilePath(aLine) ==
  IF Len(aLine) >= 1 /\ aLine[1] = "diff --git "
  THEN LET a == PathNameAt(aLine, 2, "a/", IdlNameLexemes)
       IN IF a # 0 /\ a + 1 <= Len(aLine) /\ aLine[a + 1] = " "
          THEN LET b == PathNameAt(aLine, a + 2, "b/", IdlNameLexemes)
               IN IF b # 0 THEN Some(Join(SubSeq(aLine, a + 3, b))) ELSE None
          ELSE None
  ELSE None

\* re.search("([a-zA-Z0-9]+\.idl)", path): the file name of the b side.
extractIDLFileName(aLine) ==
  IF Len(aLine) >= 1 /\ aLine[1] = "diff --git "
  THEN LET a == PathNameAt(aLine, 2, "a/", IdlNameLexemes)
       IN IF a # 0 /\ a + 1 <= Len(aLine) /\ aLine[a + 1] = " "
          THEN LET b == PathNameAt(aLine, a + 2, "b/", IdlNameLexemes)
               IN IF b # 0 THEN Some(aLine[b]) ELSE None
          ELSE None
  ELSE None

isStartOfIDLFile(aLine) == Truthy(extractIDLFileName(aLine))

\* re.search("^diff\ --git\ a/([a-zA-Z0-9]+/)+([a-zA-Z0-9]+\.[a-zA-Z0-9])+")
isLineStartOfNewFile(aLine) ==
  /\ Len(aLine) >= 1 /\ aLine[1] = "diff --git "
  /\ PathNameAt(aLine, 2, "a/", FileNameLexemes) # 0

(***************************************************************************)
(* Interface names (checkiid.py 603-713).                                  *)
(***************************************************************************)
\* "(\s)*interface(\s)+(.*)(\s)*\:(\s)*(.*)" matched from position p: the
\* name group, right-stripped, or None when the pattern does not match.
InterfaceNameAt(l, p) ==
  LET i == SkipSpaces(l, p)
      n == SkipSpaces(l, i + 1)
      colons == {c \in Positions(l, ":") : c >= n}
  IN IF /\ i <= Len(l) /\ l[i] = "interface"
        /\ i + 1 <= Len(l) /\ IsSpace(l[i + 1])
        /\ colons # {}
     THEN Some(Join(RStrip(SubSeq(l, n, Max(colons) - 1))))
     ELSE None

\* The positions j of an "@@" that can close the prefix "@@(\s)+(.*)(\s)+@@".
HunkCloses(l) ==
  {j \in Positions(l, "@@") : j >= 4 /\ IsSpace(l[j - 1]) /\ IsSpace(l[2])}

\* extractInterfaceName(aLine, aContextPrefix) for the three prefixes in use:
\* "" (none), "[\+,\-]" (a diff marker) and "@@(\s)+(.*)(\s)+@@" (a hunk).
extractInterfaceName(aLine, aContextPrefix) ==
  CASE aContextPrefix = "" -> InterfaceNameAt(aLine, 1)
    [] aContextPrefix = "marker" ->
         IF Len(aLine) >= 1 /\ aLine[1] \in {"+", ",", "-"}
         THEN InterfaceNameAt(aLine, 2) ELSE None
    [] aContextPrefix = "hunk" ->
         LET ok == {j \in HunkCloses(aLine) :
                      aLine[1] = "@@" /\ ~IsNone(InterfaceNameAt(aLine, j + 1))}
         IN IF ok # {} THEN InterfaceNameAt(aLine, Max(ok) + 1) ELSE None

extractInterfaceNameFromDefinitionLine(aLine) ==
  LET patchExtraction == extractInterfaceName(aLine, "marker")
  IN IF Truthy(patchExtraction) THEN patchExtraction
     ELSE extractInterfaceName(aLine, "")

extractInterfaceNameFromContextLine(aLine) == extractInterfaceName(aLine, "hunk")

\* A definition line that does not end in ';' (a forward declaration).
isInterfaceDefinitionLine(aLine) ==
  /\ Truthy(extractInterfaceNameFromDefinitionLine(aLine))
  /\ LET trimmedLine == RStrip(aLine)
     IN ~(Len(trimmedLine) = 0 \/ trimmedLine[Len(trimmedLine)] \in SemicolonEnded)

isInterfaceContextLine(aLine) == Truthy(extractInterfaceNameFromContextLine(aLine))

(***************************************************************************)
(* Hunk headers (checkiid.py 683-687).                                     *)
(***************************************************************************)
\* int(): the value of a decimal numeral, None for any other text (where
\* Python raises ValueError).
ParseInt(s) ==
  CASE s = "0" -> Some(0) [] s = "1" -> Some(1) [] s = "2" -> Some(2)
    [] s = "3" -> Some(3) [] s = "4" -> Some(4) [] s = "5" -> Some(5)
    [] s = "6" -> Some(6) [] s = "7" -> Some(7) [] s = "8" -> Some(8)
    [] s = "9" -> Some(9) [] OTHER -> None

\* Whether ",(.*)(\s)+@@" matches from the comma at c.
CommaThenClose(l, c) ==
  \E j \in Positions(l, "@@") : j > c + 1 /\ IsSpace(l[j - 1])

\* Whether ",(.*)(\s)+\+(.*),(.*)(\s)+@@" matches from the comma at c.
CommaThenPlus(l, c) ==
  \E p \in Positions(l, "+") :
     /\ p > c + 1 /\ IsSpace(l[p - 1])
     /\ \E c2 \in Positions(l, ",") : c2 > p /\ CommaThenClose(l, c2)

\* re.search("@@(\s)+\-(.*),(.*)(\s)+\+(.*),(.*)(\s)+@@"): group 2 is the
\* text from the '-' to the last comma the rest of the pattern allows.
\* Returns <<"ok", n>>, or <<"ValueError@686", 0>> when int() raises.
extractLineNumberFromContext(aLine) ==
  LET starts == {a \in Positions(aLine, "@@") :
                   /\ a + 1 <= Len(aLine) /\ IsSpace(aLine[a + 1])
                   /\ LET m == SkipSpaces(aLine, a + 1)
                      IN /\ m <= Len(aLine) /\ aLine[m] = "-"
                         /\ \E c \in Positions(aLine, ",") :
                              c > m /\ CommaThenPlus(aLine, c)}
  IN IF starts = {} THEN <<"ok", 0>>
     ELSE LET m == SkipSpaces(aLine, Min(starts) + 1)
              c == Max({c \in Positions(aLine, ",") : c > m /\ CommaThenPlus(aLine, c)})
              v == ParseInt(Join(SubSeq(aLine, m + 1, c - 1)))
          IN IF IsNone(v) THEN <<"ValueError@686", 0>> ELSE <<"ok", v[1] - 1>>

(***************************************************************************)
(* Constant expressions and one-line comments (checkiid.py 561-591).       *)
(***************************************************************************)
\* re.search("^(\s)*[\+\-](\s)+const(\s)+(.*)") on a change line
isLineConstantExpression(aLine) ==
  /\ isAdditionLine(aLine) \/ isRemovalLine(aLine)
  /\ Len(aLine) >= 3 /\ IsSpace(aLine[2])
  /\ LET i == SkipSpaces(aLine, 2)
     IN /\ i <= Len(aLine) /\ aLine[i] = "const"
        \* the white space after "const" may be the line's own newline
        /\ (i = Len(aLine) \/ IsSpace(aLine[i + 1]))

\* re.search("^[\+\-](\s)*\/\/")
StartsLineComment(aLine) ==
  /\ Len(aLine) >= 1 /\ aLine[1] \in {"+", "-"}
  /\ LET i == SkipSpaces(aLine, 2) IN i <= Len(aLine) /\ aLine[i] = "//"

(***************************************************************************)
(* Descriptor registry (checkiid.py 113-157, 1089-1094).                   *)
(***************************************************************************)
IDLDescriptor(aToken, aAffectsBinaryCompat) ==
  [mToken |-> aToken, mBinaryCompat |-> aAffectsBinaryCompat]

\* The global registry the two static methods read.
VARIABLE gDescriptorList

\* The list main builds before it parses (1089-1094).
DescriptorsOfMain ==
  << IDLDescriptor("implicit_jscontext", TRUE), IDLDescriptor("nostdcall", TRUE),
     IDLDescriptor("notxpcom", TRUE), IDLDescriptor("optional_argc", TRUE) >>

\* str.split(","): the texts between the commas of a lexeme sequence.
RECURSIVE SplitComma(_, _)
SplitComma(l, acc) ==
  IF l = <<>> THEN <<acc>>
  ELSE IF l[1] = "," THEN <<acc>> \o SplitComma(Tail(l), "")
  ELSE SplitComma(Tail(l), acc \o l[1])

\* re.search("^(\s)*[\+\-](\s)*\[(.*)](.*)"): group 3 split at the commas
\* holds the descriptor's token.
isInLine(desc, aLine) ==
  LET i == SkipSpaces(aLine, 1)
      j == SkipSpaces(aLine, i + 1)
      closes == {k \in Positions(aLine, "]") : k > j}
  IN /\ i <= Len(aLine) /\ aLine[i] \in {"+", "-"}
     /\ j <= Len(aLine) /\ aLine[j] = "["
     /\ closes # {}
     /\ LET splitAttrs == SplitComma(SubSeq(aLine, j + 1, Max(closes) - 1), "")
        IN \E a \in 1..Len(splitAttrs) : splitAttrs[a] = desc.mToken

hasDescriptorsInLine(aLine) ==
  \E d \in 1..Len(gDescriptorList) : isInLine(gDescriptorList[d], aLine)

\* "if desc.affectsBinaryCompatibility:" tests the bound method, not its
\* result: a method object is always true.
AffectsBinaryCompatibilityTest(desc) == TRUE

\* The same with the test of 149 inverted.
areDescriptorsInLineAffectingBinaryCompat_Inverted(aLine) ==
  /\ hasDescriptorsInLine(aLine)
  /\ \E d \in 1..Len(gDescriptorList) :
       ~AffectsBinaryCompatibilityTest(gDescriptorList[d])

\* areDescriptorsInLineAffectingBinaryCompat(aLine), 142-154.
areDescriptorsInLineAffectingBinaryCompat(aLine) ==
  /\ hasDescriptorsInLine(aLine)
  /\ \E d \in 1..Len(gDescriptorList) :
       AffectsBinaryCompatibilityTest(gDescriptorList[d])

(***************************************************************************)
(* Block-range indexer (checkiid.py 159-349).  A file is a sequence of     *)
(* lines, a line a sequence of lexemes.                                    *)
(***************************************************************************)
SpecialBlockType(aStartTokens, aEndToken) ==
  [mStart |-> aStartTokens, mEnd |-> aEndToken]

\* SpecialBlockType("\/\*", "\*\/")
commentType == SpecialBlockType(<<"/*">>, "*/")

\* SpecialBlockType("\%{\s*C\+\+", "\%\}")
cppType == SpecialBlockType(<<"%{", "C++">>, "%}")

\* re.match("^(\s)*" + start): the start token (its parts separated by any
\* white space) after leading white space.
RECURSIVE MatchParts(_, _, _)
MatchParts(l, i, parts) ==
  IF parts = <<>> THEN TRUE
  ELSE LET k == SkipSpaces(l, i)
       IN k <= Len(l) /\ l[k] = parts[1] /\ MatchParts(l, k + 1, Tail(parts))

isStartOfSpecialBlock(type, aLine) ==
  LET i == SkipSpaces(aLine, 1)
  IN /\ i <= Len(aLine) /\ aLine[i] = type.mStart[1]
     /\ MatchParts(aLine, i + 1, Tail(type.mStart))

\* re.match("^(\s)*(.*)" + start + "(.*)" + end + "(\s)*(.*)")
containsSpecialBlock(type, aLine) ==
  \E a \in Positions(aLine, type.mStart[1]) :
     /\ MatchParts(aLine, a + 1, Tail(type.mStart))
     /\ \E b \in Positions(aLine, type.mEnd) : b >= a + Len(type.mStart)

\* re.match("(.*)" + end + "(\s)*$")
isEndOfSpecialBlock(type, aLine) ==
  LET t == RStrip(aLine) IN Len(t) > 0 /\ t[Len(t)] = type.mEnd

SpecialBlockRange(aStart, aEnd) == [mStartLine |-> aStart, mEndLine |-> aEnd]

\* SpecialBlockRange.__contains__
RangeContains(range, x) == x >= range.mStartLine /\ x <= range.mEndLine

\* The scan state sc of findAllSpecialBlocksForFile is [stack, ranges,
\* raised]: blockStack, the list in the cache and the exception raised.
\* blockStack.append((type, lineNo)) when the line starts a block of the type.
PushStart(sc, type, kind, line, lineNo) ==
  IF isStartOfSpecialBlock(type, line)
  THEN [sc EXCEPT !.stack = Append(@, <<kind, lineNo>>)] ELSE sc

\* blockStack.pop() of a stack that is not empty, then the branch on the type
\* popped: a range for a block of `kind`, and for another type
\* blockStack.push, which a list does not have (AttributeError).
PopEnd(sc, kind, lineNo, error) ==
  IF sc.stack[Len(sc.stack)][1] = kind
  THEN [sc EXCEPT !.stack = SubSeq(@, 1, Len(@) - 1),
                  !.ranges = Append(@, SpecialBlockRange(sc.stack[Len(sc.stack)][2], lineNo))]
  ELSE [sc EXCEPT !.stack = SubSeq(@, 1, Len(@) - 1), !.raised = error]

\* 331-343: the end of an escape block; list.pop() of an empty list raises
\* IndexError.
EndCpp(sc, line, lineNo) ==
  IF ~isEndOfSpecialBlock(cppType, line) THEN sc
  ELSE IF Len(sc.stack) = 0 THEN [sc EXCEPT !.raised = "IndexError@334"]
  ELSE PopEnd(sc, "cpp", lineNo, "AttributeError@343")

\* 323-343: the second half of the loop body, the escape-block type.
ScanCppHalf(sc, line, lineNo) ==
  IF sc.raised # "" THEN sc
  ELSE EndCpp(PushStart(sc, cppType, "cpp", line, lineNo), line, lineNo)

\* 302-321: the end of a block comment (skipped with continue when the stack
\* is empty), then the second half.
EndComment(sc, line, lineNo) ==
  IF ~isEndOfSpecialBlock(commentType, line) THEN ScanCppHalf(sc, line, lineNo)
  ELSE IF Len(sc.stack) = 0 THEN sc
  ELSE ScanCppHalf(PopEnd(sc, "comment", lineNo, "AttributeError@321"), line, lineNo)

\* ScanLine without the test of 288: a line with a whole block comment on it
\* is scanned like any other line.
ScanLine_NoSkip(sc, line, lineNo) ==
  EndComment(PushStart(sc, commentType, "comment", line, lineNo), line, lineNo)

\* The body of the loop for the line numbered lineNo.
ScanLine(sc, line, lineNo) ==
  IF containsSpecialBlock(commentType, line) THEN sc
  ELSE EndComment(PushStart(sc, commentType, "comment", line, lineNo), line, lineNo)

\* The loop over the lines of the file, stopping where an exception is raised.
RECURSIVE ScanFrom(_, _, _)
ScanFrom(sc, lines, lineNo) ==
  IF lineNo > Len(lines) \/ sc.raised # "" THEN sc
  ELSE ScanFrom(ScanLine(sc, lines[lineNo], lineNo), lines, lineNo + 1)

\* What a scan leaves: the list in the cache and the exception raised.
ScanResult(sc) == [ranges |-> sc.ranges, raised |-> sc.raised]

\* findAllSpecialBlocksForFile(aFilePath) on the disk content `file` (None
\* for a file that does not exist): the list left in
\* gFilePathToCommentRangeMap[aFilePath] and the exception raised, if any.
\* The entry is created empty before open() is tried.
findAllSpecialBlocksForFile(file) ==
  IF IsNone(file) THEN [ranges |-> <<>>, raised |-> "IOError@273"]
  ELSE ScanResult(ScanFrom([stack |-> <<>>, ranges |-> <<>>, raised |-> ""], file[1], 1))

(***************************************************************************)
(* Rename detection (checkiid.py 383-428).                                 *)
(***************************************************************************)
\* Pairs <<a, b>> of distinct lexemes with a a substring of b.
ProperSubstrings == {<<"nsIFoo", "nsIFoo2">>}

\* "aCurrentInterface in idlFileLine"
LineMentions(fileLine, name) ==
  \E i \in 1..Len(fileLine) :
     fileLine[i] = name \/ <<name, fileLine[i]>> \in ProperSubstrings

\* The while loop: idlLines[counter] for counter = start .. end, a Python
\* list index (0-based, negative from the end, IndexError outside).
RECURSIVE RenameSearch(_, _, _, _)
RenameSearch(name, idlLines, counter, end) ==
  IF counter > end THEN "True"
  ELSE IF counter >= Len(idlLines) \/ counter < 0 - Len(idlLines) THEN "IndexError@422"
  ELSE LET idx == IF counter >= 0 THEN counter + 1 ELSE Len(idlLines) + counter + 1
       IN IF LineMentions(idlLines[idx], name) THEN "False"
          ELSE RenameSearch(name, idlLines, counter + 1, end)

\* isLineInterfaceRename(aLine, aCurrentInterface, aIDLFilePath, (start, end))
\* with `file` the disk content at aIDLFilePath: "True", "False", or the
\* exception it raises.  The range is a tuple, never false, so a start of
\* None reaches the comparison "counter <= end" and raises TypeError.
isLineInterfaceRename(aLine, aCurrentInterface, aIDLFilePath, file, start, end) ==
  IF ~Truthy(aIDLFilePath) THEN "False"
  ELSE IF ~Truthy(aCurrentInterface) THEN "False"
  ELSE IF ~isInterfaceDefinitionLine(aLine) THEN "False"
  ELSE IF IsNone(file) THEN "False"
  ELSE IF IsNone(start) THEN "TypeError@421"
  ELSE RenameSearch(aCurrentInterface[1], file[1], start[1], end)

(***************************************************************************)
(* Comment lines (checkiid.py 249-253, 583-601).                           *)
(***************************************************************************)
\* The cache with the list `found` entered for aFilePath, and what the lookup
\* returns or raises.
CacheRanges(map, aFilePath, found) ==
  [map |-> (aFilePath :> found.ranges) @@ map,
   ranges |-> found.ranges, raised |-> found.raised, opened |-> TRUE]

\* getRangesForFilePath without the test of 250: every lookup scans the file.
getRangesForFilePath_Uncached(map, aFilePath, file) ==
  CacheRanges(map, aFilePath, findAllSpecialBlocksForFile(file))

\* getRangesForFilePath(aFilePath) from the cache `map`: the cache after the
\* call, the ranges returned, the exception raised ("" for none) and whether
\* the file was passed to open() (273).
getRangesForFilePath(map, aFilePath, file) ==
  IF aFilePath \in DOMAIN map
  THEN [map |-> map, ranges |-> map[aFilePath], raised |-> "", opened |-> FALSE]
  ELSE CacheRanges(map, aFilePath, findAllSpecialBlocksForFile(file))

\* 593-599: whether one of the ranges `got` holds contains the line number.
InSomeRange(got, aLineNumber) ==
  [map |-> got.map,
   result |-> got.raised = "" /\
              \E r \in 1..Len(got.ranges) : RangeContains(got.ranges[r], aLineNumber),
   raised |-> got.raised, opened |-> got.opened]

\* isLineComment(aLine, aLineNumber, aFilePath): the cache after the call,
\* the result and the exception raised.
isLineComment(map, aLine, aLineNumber, aFilePath, file) ==
  IF ~isLineChange(aLine)
  THEN [map |-> map, result |-> FALSE, raised |-> "", opened |-> FALSE]
  ELSE IF StartsLineComment(aLine)
  THEN [map |-> map, result |-> TRUE, raised |-> "", opened |-> FALSE]
  ELSE InSomeRange(getRangesForFilePath(map, aFilePath, file), aLineNumber)

(***************************************************************************)
(* The line cursor (checkiid.py 782-795).                                  *)
(***************************************************************************)
\* updateFileMetadata without 789-791: an addition after a removal advances
\* the cursor like any other addition.
updateFileMetadata_NoReplace(aLine, aPrevLineNumber, aLastLineWasRemoval) ==
  IF isLineChange(aLine) /\ isRemovalLine(aLine)
  THEN <<aPrevLineNumber, TRUE>>
  ELSE <<aPrevLineNumber + 1, FALSE>>

updateFileMetadata(aLine, aPrevLineNumber, aLastLineWasRemoval) ==
  IF isLineChange(aLine) /\ isAdditionLine(aLine) /\ aLastLineWasRemoval
  THEN <<aPrevLineNumber, FALSE>>
  ELSE IF isLineChange(aLine) /\ isRemovalLine(aLine)
  THEN <<aPrevLineNumber, TRUE>>
  ELSE <<aPrevLineNumber + 1, FALSE>>

(***************************************************************************)
(* State.                                                                  *)
(***************************************************************************)
VARIABLES
  disk,                         \* the checked-out tree: path -> None or <<lines>>
  opened,                       \* the paths passed to open() at 273, in order
  gFilePathToCommentRangeMap,   \* global cache: path -> list of ranges
  patch,                        \* the lines of aInputPatch read so far (when kept)
  line,                         \* the loop variable of parsePatch
  lineNo,
  pc,                           \* "parse", "done" (main has reported) or "raised"
  raised,                       \* the exception that ended the run and its line, "" for none
  loopExit,                     \* where the loop body ended for `line`
  currentIDLFile, currentIDLPath, currentIDLFileWasDeleted,
  currentInterfaceName, previousInterfaceName,
  needInterfaceName, foundIIDChangeLine, interfaceMayBeRemoved,
  lastUUIDChangeLineSeen, currentInterfaceWasRenamed,
  currentLineNumber, lastLineWasRemoval,
  interfacesRequiringNewIID, revvedInterfaces, interfaceNameIDLMap,
  fileWarningsIssued,
  idlStart, iidRemoval, cmt, constEx, change, binaryCompat, descr,
  run,                          \* which run of parsePatch this is (1 or 2)
  firstResult,                  \* what the first run returned, None before
  errorsPrinted, infosPrinted,  \* what main printed
  gOutputTestPath,              \* None, or the lines of the reference file of -t
  signal                        \* what the self-test printed, "" before

locals ==
  << line, lineNo, loopExit,
     currentIDLFile, currentIDLPath, currentIDLFileWasDeleted,
     currentInterfaceName, previousInterfaceName,
     needInterfaceName, foundIIDChangeLine, interfaceMayBeRemoved,
     lastUUIDChangeLineSeen, currentInterfaceWasRenamed,
     currentLineNumber, lastLineWasRemoval,
     interfacesRequiringNewIID, revvedInterfaces, interfaceNameIDLMap,
     fileWarningsIssued,
     idlStart, iidRemoval, cmt, constEx, change, binaryCompat, descr >>

vars ==
  << disk, opened, gFilePathToCommentRangeMap, gDescriptorList, patch, pc, raised,
     run, firstResult, errorsPrinted, infosPrinted, gOutputTestPath, signal, locals >>

\* The locals of parsePatch as one record, with the cache and the exception.
Frame ==
  [ currentIDLFile |-> currentIDLFile, currentIDLPath |-> currentIDLPath,
    currentIDLFileWasDeleted |-> currentIDLFileWasDeleted,
    currentInterfaceName |-> currentInterfaceName,
    previousInterfaceName |-> previousInterfaceName,
    needInterfaceName |-> needInterfaceName,
    foundIIDChangeLine |-> foundIIDChangeLine,
    interfaceMayBeRemoved |-> interfaceMayBeRemoved,
    lastUUIDChangeLineSeen |-> lastUUIDChangeLineSeen,
    currentInterfaceWasRenamed |-> currentInterfaceWasRenamed,
    currentLineNumber |-> currentLineNumber,
    lastLineWasRemoval |-> lastLineWasRemoval,
    interfacesRequiringNewIID |-> interfacesRequiringNewIID,
    revvedInterfaces |-> revvedInterfaces,
    interfaceNameIDLMap |-> interfaceNameIDLMap,
    fileWarningsIssued |-> fileWarningsIssued,
    idlStart |-> idlStart, iidRemoval |-> iidRemoval, cmt |-> cmt,
    constEx |-> constEx, change |-> change, binaryCompat |-> binaryCompat,
    descr |-> descr,
    map |-> gFilePathToCommentRangeMap, opened |-> opened,
    raised |-> "", loopExit |-> "" ]

\* The values parsePatch gives its locals before the loop (815-837).  The
\* locals the loop assigns before it reads them start as FALSE or None;
\* currentIDLFileWasDeleted is read at 861 and has no initial value.
InitialFrame(map) ==
  [ currentIDLFile |-> None, currentIDLPath |-> None,
    currentIDLFileWasDeleted |-> None,
    currentInterfaceName |-> None, previousInterfaceName |-> None,
    needInterfaceName |-> FALSE, foundIIDChangeLine |-> FALSE,
    interfaceMayBeRemoved |-> FALSE, lastUUIDChangeLineSeen |-> None,
    currentInterfaceWasRenamed |-> FALSE,
    currentLineNumber |-> -1, lastLineWasRemoval |-> FALSE,
    interfacesRequiringNewIID |-> <<>>, revvedInterfaces |-> <<>>,
    interfaceNameIDLMap |-> <<>>, fileWarningsIssued |-> <<>>,
    idlStart |-> FALSE, iidRemoval |-> FALSE, cmt |-> FALSE,
    constEx |-> FALSE, change |-> FALSE, binaryCompat |-> FALSE,
    descr |-> FALSE,
    map |-> map, raised |-> "", loopExit |-> "" ]

\* "x in list"
InList(x, list) == \E i \in 1..Len(list) : list[i] = x

\* list.remove(x): the list without its first x.
RECURSIVE ListRemove(_, _)
ListRemove(list, x) ==
  IF list = <<>> THEN <<>>
  ELSE IF list[1] = x THEN Tail(list)
  ELSE <<list[1]>> \o ListRemove(Tail(list), x)

(***************************************************************************)
(* parsePatch (checkiid.py 812-1029): the body of the loop for one line,   *)
(* in the order of the code, as steps over the frame f.                    *)
(***************************************************************************)
\* EnterLine without 851-852: an addition line leaves interfaceMayBeRemoved.
EnterLine_KeepsFlag(f, l) ==
  LET meta == updateFileMetadata(l, f.currentLineNumber, f.lastLineWasRemoval)
      start == isStartOfIDLFile(l)
  IN [f EXCEPT
        !.currentLineNumber = meta[1],
        !.lastLineWasRemoval = meta[2],
        !.idlStart = start,
        !.currentIDLFileWasDeleted =
           IF doesLineSignifyDeletion(l) THEN Some(TRUE)
           ELSE IF start THEN Some(FALSE) ELSE @,
        !.interfaceMayBeRemoved = IF start THEN FALSE ELSE @,
        !.currentInterfaceWasRenamed = IF start THEN FALSE ELSE @,
        !.needInterfaceName = IF ~Truthy(f.currentInterfaceName) THEN TRUE ELSE @]

\* 842-859: the cursor, the flags every line resets, the deletion marker.
EnterLine(f, l) ==
  LET meta == updateFileMetadata(l, f.currentLineNumber, f.lastLineWasRemoval)
      start == isStartOfIDLFile(l)
  IN [f EXCEPT
        !.currentLineNumber = meta[1],
        !.lastLineWasRemoval = meta[2],
        !.idlStart = start,
        !.currentIDLFileWasDeleted =
           IF doesLineSignifyDeletion(l) THEN Some(TRUE)
           ELSE IF start THEN Some(FALSE) ELSE @,
        !.interfaceMayBeRemoved =
           IF start \/ isAdditionLine(l) THEN FALSE ELSE @,
        !.currentInterfaceWasRenamed = IF start THEN FALSE ELSE @,
        !.needInterfaceName = IF ~Truthy(f.currentInterfaceName) THEN TRUE ELSE @]

\* 866-874: a change line whose content is empty or white space is skipped.
IsEmptyChange(l) ==
  isLineChange(l) /\ Len(RStrip(extractContentFromChangeLine(l)[1])) = 0

\* 876-884: the start of a file that is not an IDL file.
NonIDLFileStart(f, l) ==
  IF isLineStartOfNewFile(l) /\ ~f.idlStart
  THEN [f EXCEPT !.lastUUIDChangeLineSeen = None,
                 !.currentInterfaceWasRenamed = FALSE,
                 !.previousInterfaceName = f.currentInterfaceName,
                 !.currentInterfaceName = None]
  ELSE f

\* IDLFileStart without 909: foundIIDChangeLine outlives the file.
IDLFileStart_KeepsFlag(f, l) ==
  IF f.idlStart
  THEN [f EXCEPT !.lastUUIDChangeLineSeen = None,
                 !.currentIDLFile = extractIDLFileName(l),
                 !.currentIDLPath = extractIDLFilePath(l),
                 !.needInterfaceName = TRUE,
                 !.previousInterfaceName = f.currentInterfaceName,
                 !.currentInterfaceName = None]
  ELSE f

\* 886-912: the start of an IDL file.
IDLFileStart(f, l) ==
  IF f.idlStart
  THEN [f EXCEPT !.lastUUIDChangeLineSeen = None,
                 !.currentIDLFile = extractIDLFileName(l),
                 !.currentIDLPath = extractIDLFilePath(l),
                 !.needInterfaceName = TRUE,
                 !.previousInterfaceName = f.currentInterfaceName,
                 !.currentInterfaceName = None,
                 !.foundIIDChangeLine = FALSE]
  ELSE f

\* IIDLine without 921-922: a removed IID line does not mark the interface
\* as one that may be removed.
IIDLine_Unmarked(f, l) ==
  IF isLineIIDAddition(l)
  THEN [f EXCEPT !.needInterfaceName = TRUE,
                 !.previousInterfaceName = f.currentInterfaceName,
                 !.currentInterfaceName = None,
                 !.foundIIDChangeLine = TRUE]
  ELSE IF isLineIIDDefinition(l)
  THEN [f EXCEPT !.needInterfaceName = TRUE,
                 !.previousInterfaceName = f.currentInterfaceName,
                 !.currentInterfaceName = None,
                 !.foundIIDChangeLine = FALSE]
  ELSE f

\* 914-927: an IID line.
IIDLine(f, l) ==
  IF isLineIIDAddition(l)
  THEN [f EXCEPT !.needInterfaceName = TRUE,
                 !.previousInterfaceName = f.currentInterfaceName,
                 !.currentInterfaceName = None,
                 !.foundIIDChangeLine = TRUE]
  ELSE IF isLineIIDDefinition(l)
  THEN [f EXCEPT !.interfaceMayBeRemoved = IF isRemovalLine(l) THEN TRUE ELSE @,
                 !.needInterfaceName = TRUE,
                 !.previousInterfaceName = f.currentInterfaceName,
                 !.currentInterfaceName = None,
                 !.foundIIDChangeLine = FALSE]
  ELSE f

\* CaptureInterfaceName without 943-945: the interface whose IID line was
\* added is not entered into revvedInterfaces.
CaptureInterfaceName_NotRevved(f, l) ==
  IF f.needInterfaceName /\ isInterfaceDefinitionLine(l)
  THEN [f EXCEPT !.currentInterfaceName = extractInterfaceNameFromDefinitionLine(l),
                 !.foundIIDChangeLine = FALSE,
                 !.needInterfaceName = FALSE,
                 !.interfaceNameIDLMap =
                    (extractInterfaceNameFromDefinitionLine(l)[1] :> f.currentIDLFile) @@ @]
  ELSE f

\* 929-951: a definition line while a name is needed.
CaptureInterfaceName(f, l) ==
  IF f.needInterfaceName /\ isInterfaceDefinitionLine(l)
  THEN LET name == extractInterfaceNameFromDefinitionLine(l)
       IN [f EXCEPT !.currentInterfaceName = name,
                    !.revvedInterfaces =
                       IF f.foundIIDChangeLine THEN Append(@, name[1]) ELSE @,
                    !.foundIIDChangeLine = FALSE,
                    !.needInterfaceName = FALSE,
                    !.interfaceNameIDLMap = (name[1] :> f.currentIDLFile) @@ @]
  ELSE f

\* 953-960: a definition line while no name is needed: the rename check.
\* The debug message at 959 concatenates currentInterfaceName.
CheckRename(f, l) ==
  IF ~f.needInterfaceName /\ isInterfaceDefinitionLine(l)
  THEN LET r == isLineInterfaceRename(l, f.previousInterfaceName, f.currentIDLPath,
                   IF IsNone(f.currentIDLPath) THEN None ELSE disk[f.currentIDLPath[1]],
                   f.lastUUIDChangeLineSeen, f.currentLineNumber + 1)
       IN IF r = "True"
          THEN IF IsNone(f.currentInterfaceName) THEN [f EXCEPT !.raised = "TypeError@959"]
               ELSE [f EXCEPT !.currentInterfaceWasRenamed = TRUE]
          ELSE IF r = "False" THEN f
          ELSE [f EXCEPT !.raised = r]
  ELSE f

\* ContextLine with the switch of 972 made only while a name is needed.
ContextLine_OnlyWhenNeeded(f, l) ==
  IF isContextLine(l)
  THEN LET n == extractLineNumberFromContext(l)
       IN IF n[1] # "ok" THEN [f EXCEPT !.raised = n[1]]
          ELSE IF isInterfaceContextLine(l) /\ f.needInterfaceName
          THEN [f EXCEPT !.currentLineNumber = n[2],
                         !.currentInterfaceName = extractInterfaceNameFromContextLine(l),
                         !.interfaceNameIDLMap =
                            (extractInterfaceNameFromContextLine(l)[1] :> f.currentIDLFile) @@ @]
          ELSE [f EXCEPT !.currentLineNumber = n[2]]
  ELSE f

\* ContextLine without the mapping of 977: the interface of a hunk header is
\* made current and not entered into interfaceNameIDLMap.
ContextLine_NoMapping(f, l) ==
  IF isContextLine(l)
  THEN LET n == extractLineNumberFromContext(l)
       IN IF n[1] # "ok" THEN [f EXCEPT !.raised = n[1]]
          ELSE IF isInterfaceContextLine(l)
          THEN [f EXCEPT !.currentLineNumber = n[2],
                         !.currentInterfaceName = extractInterfaceNameFromContextLine(l)]
          ELSE [f EXCEPT !.currentLineNumber = n[2]]
  ELSE f

\* 962-977: a hunk header.
ContextLine(f, l) ==
  IF isContextLine(l)
  THEN LET n == extractLineNumberFromContext(l)
       IN IF n[1] # "ok" THEN [f EXCEPT !.raised = n[1]]
          ELSE IF isInterfaceContextLine(l)
          THEN LET name == extractInterfaceNameFromContextLine(l)
               IN [f EXCEPT !.currentLineNumber = n[2],
                            !.currentInterfaceName = name,
                            !.interfaceNameIDLMap = (name[1] :> f.currentIDLFile) @@ @]
          ELSE [f EXCEPT !.currentLineNumber = n[2]]
  ELSE f

\* 979-1003 with c what isLineComment returned or raised: the classification
\* of the line, the cache and the warning (issued once per file name).
Classified(f, l, c) ==
  [f EXCEPT
     !.iidRemoval = isLineIIDRemoval(l),
     !.lastUUIDChangeLineSeen =
        IF isLineIIDRemoval(l) THEN Some(f.currentLineNumber) ELSE @,
     !.map = c.map,
     !.opened = IF c.opened THEN Append(@, f.currentIDLPath[1]) ELSE @,
     !.cmt = IF c.raised # "" THEN FALSE ELSE c.result,
     !.constEx = isLineConstantExpression(l),
     !.change = isLineChange(l),
     !.binaryCompat = areDescriptorsInLineAffectingBinaryCompat(l),
     !.descr = hasDescriptorsInLine(l),
     !.fileWarningsIssued =
        IF c.raised # "" /\ ~InList(f.currentIDLFile, @)
        THEN Append(@, f.currentIDLFile) ELSE @]

\* 979-1003: the classification of the line.
ClassifyLine(f, l) ==
  Classified(f, l, isLineComment(f.map, l, f.currentLineNumber, f.currentIDLPath[1],
                                 disk[f.currentIDLPath[1]]))

\* The condition of the if at 1007.
NeedsNewIID(f) ==
  \/ f.binaryCompat
  \/ /\ ~f.currentInterfaceWasRenamed /\ ~f.descr /\ ~f.iidRemoval
     /\ ~f.cmt /\ ~f.constEx /\ f.change /\ Truthy(f.currentInterfaceName)

\* Verdict without the test of 1019: the name is appended whether or not the
\* list holds it.
Verdict_AlwaysAppend(f) ==
  IF NeedsNewIID(f)
  THEN IF IsNone(f.currentInterfaceName) THEN [f EXCEPT !.raised = "TypeError@1009"]
       ELSE [f EXCEPT !.interfacesRequiringNewIID = Append(@, f.currentInterfaceName[1])]
  ELSE f

\* 1007-1020: the verdict.  The debug message at 1009 concatenates
\* currentInterfaceName, which raises TypeError when it is None.
Verdict(f) ==
  IF NeedsNewIID(f)
  THEN IF IsNone(f.currentInterfaceName) THEN [f EXCEPT !.raised = "TypeError@1009"]
       ELSE IF ~InList(f.currentInterfaceName[1], f.interfacesRequiringNewIID)
       THEN [f EXCEPT !.interfacesRequiringNewIID = Append(@, f.currentInterfaceName[1])]
       ELSE f
  ELSE f

\* 1022-1027: the end of a removed interface.
RetractRemoved(f, l) ==
  IF /\ isEndOfInterfaceRemoval(l) /\ f.interfaceMayBeRemoved
     /\ ~IsNone(f.currentInterfaceName)
     /\ InList(f.currentInterfaceName[1], f.interfacesRequiringNewIID)
  THEN [f EXCEPT !.interfacesRequiringNewIID = ListRemove(@, f.currentInterfaceName[1]),
                 !.interfaceMayBeRemoved = FALSE]
  ELSE f

\* CheckDeleted without the continue of 864: the lines of a deleted file go
\* through the rest of the loop body.
CheckDeleted_NoSkip(f) ==
  IF IsNone(f.currentIDLFileWasDeleted) THEN [f EXCEPT !.raised = "UnboundLocalError@861"]
  ELSE f

\* 861-864: the lines of a deleted file are skipped.  The flag has no value
\* before the first IDL header or deletion marker.
CheckDeleted(f) ==
  IF IsNone(f.currentIDLFileWasDeleted) THEN [f EXCEPT !.raised = "UnboundLocalError@861"]
  ELSE IF f.currentIDLFileWasDeleted[1] THEN [f EXCEPT !.loopExit = "continue@864"]
  ELSE f

\* 866-874: the continue of an empty change line.
CheckEmpty(f, l) ==
  IF IsEmptyChange(l) THEN [f EXCEPT !.loopExit = "continue@874"] ELSE f

\* The end of the loop body.
EndOfBody(f) == [f EXCEPT !.loopExit = "end@1027"]

\* The statements of the loop body, in the order of the code.
BodySteps ==
  << "EnterLine", "CheckDeleted", "CheckEmpty", "NonIDLFileStart", "IDLFileStart",
     "IIDLine", "CaptureInterfaceName", "CheckRename", "ContextLine",
     "ClassifyLine", "Verdict", "RetractRemoved", "EndOfBody" >>

Step(name, f, l) ==
  CASE name = "EnterLine" -> EnterLine(f, l)
    [] name = "CheckDeleted" -> CheckDeleted(f)
    [] name = "CheckEmpty" -> CheckEmpty(f, l)
    [] name = "NonIDLFileStart" -> NonIDLFileStart(f, l)
    [] name = "IDLFileStart" -> IDLFileStart(f, l)
    [] name = "IIDLine" -> IIDLine(f, l)
    [] name = "CaptureInterfaceName" -> CaptureInterfaceName(f, l)
    [] name = "CheckRename" -> CheckRename(f, l)
    [] name = "ContextLine" -> ContextLine(f, l)
    [] name = "ClassifyLine" -> ClassifyLine(f, l)
    [] name = "Verdict" -> Verdict(f)
    [] name = "RetractRemoved" -> RetractRemoved(f, l)
    [] name = "EndOfBody" -> EndOfBody(f)

\* The statements `steps` from frame f: the rest is skipped once an exception
\* is raised or the body is left by a continue.
RECURSIVE RunSteps(_, _, _)
RunSteps(steps, f, l) ==
  IF steps = <<>> \/ f.raised # "" \/ f.loopExit # "" THEN f
  ELSE RunSteps(Tail(steps), Step(steps[1], f, l), l)

\* The whole loop body for line l from frame f.
LoopBody(f, l) == RunSteps(BodySteps, f, l)

(***************************************************************************)
(* Inputs: the lines a patch is made of and the files of the tree.         *)
(***************************************************************************)
Preamble == <<"#", " ", "HG changeset patch">>

HdrFoo == <<"diff --git ", "a/", "dir/", "foo.idl", " ", "b/", "dir/", "foo.idl">>

HdrBar == <<"diff --git ", "a/", "lib/", "bar.idl", " ", "b/", "lib/", "bar.idl">>

HdrCpp == <<"diff --git ", "a/", "dir/", "x.cpp", " ", "b/", "dir/", "x.cpp">>

\* A second file named foo.idl, in another directory.
HdrFooLib == <<"diff --git ", "a/", "lib/", "foo.idl", " ", "b/", "lib/", "foo.idl">>

FileMinus == <<"-", "-", "-", " ", "a/", "dir/", "foo.idl">>

FilePlus == <<"+", "+", "+", " ", "b/", "dir/", "foo.idl">>

DevNullMinus == <<"-", "-", "-", " ", "/dev/null">>

DevNullPlus == <<"+", "+", "+", " ", "/dev/null">>

Hunk == <<"@@", " ", "-", "2", ",", "3", " ", "+", "2", ",", "4", " ", "@@">>

HunkFoo == Hunk \o <<" ", "interface", " ", "nsIFoo", " ", ":", " ", "nsISupports", " ", "{">>

\* A hunk of nsIBar, further down the file.
HunkBar ==
  <<"@@", " ", "-", "5", ",", "3", " ", "+", "5", ",", "4", " ", "@@",
    " ", "interface", " ", "nsIBar", " ", ":", " ", "nsISupports", " ", "{">>

\* A hunk of a third interface, further down the file.
HunkBaz ==
  <<"@@", " ", "-", "5", ",", "3", " ", "+", "5", ",", "4", " ", "@@",
    " ", "interface", " ", "nsIBaz", " ", ":", " ", "nsISupports", " ", "{">>

DefFoo == <<" ", "interface", " ", "nsIFoo", " ", ":", " ", "nsISupports", " ", "{">>

DefBar == <<" ", "interface", " ", "nsIBar", " ", ":", " ", "nsISupports", " ", "{">>

DefFooRemoved == <<"-", "interface", " ", "nsIFoo", " ", ":", " ", "nsISupports", " ", "{">>

DefFooAdded == <<"+", "interface", " ", "nsIFoo", " ", ":", " ", "nsISupports", " ", "{">>

DefBarAdded == <<"+", "interface", " ", "nsIBar", " ", ":", " ", "nsISupports", " ", "{">>

UuidRemoved == <<"-", "[", "scriptable", ",", " ", "uuid(", "OLD", ")", "]">>

UuidAdded == <<"+", "[", "scriptable", ",", " ", "uuid(", "NEW", ")", "]">>

DescrAdded == <<"+", " ", "[", "notxpcom", "]", " ", "long getValue();">>

Added == <<"+", " ", " ", "void f();">>

Removed == <<"-", " ", " ", "void g();">>

CommentAdded == <<"+", " ", "//", " ", "clarifying comment">>

ConstAdded == <<"+", " ", "const", " ", "long X = 1;">>

\* A constant added with no space between the marker and "const".
ConstAddedTight == <<"+", "const", " ", "long X = 1;">>

ConstRemoved == <<"-", " ", " ", "const", " ", "long X = 1;">>

BraceRemoved == <<"-", "}", ";">>

BlankAdded == <<"+", " ">>

Unchanged == <<" ", " ", "void g();">>

\* The lines of the patches of the general specification.
PatchLines ==
  { Preamble, HdrFoo, HdrBar, HdrCpp, FileMinus, DevNullPlus, Hunk, HunkFoo,
    DefFoo, DefFooRemoved, DefBarAdded, UuidRemoved, UuidAdded, DescrAdded,
    Added, Removed, CommentAdded, ConstAdded, BraceRemoved, BlankAdded, Unchanged }

FooPath == "dir/foo.idl"

BarPath == "lib/bar.idl"

FooLibPath == "lib/foo.idl"

Text == <<" ", " ", "void g();">>

\* A block comment on lines 1-3, nsIFoo defined on line 4.
FileCommented ==
  Some(<< <<"/*">>, <<" ", "*", " ", "about">>, <<" ", "*/">>,
          <<"interface", " ", "nsIFoo", " ", ":", " ", "nsISupports">>, Text, Text >>)

\* A block comment on lines 1-3, then a comment end inside an escape block.
FileMalformed ==
  Some(<< <<"/*">>, <<" ", "*", " ", "about">>, <<" ", "*/">>,
          <<"%{", "C++">>, <<"*/">>, Text >>)

\* nsIFoo is nowhere in the file.
FileRenamed ==
  Some(<< Text, <<"interface", " ", "nsIBar", " ", ":", " ", "nsISupports">>,
          Text, Text, Text, Text, Text, Text >>)

FileShort == Some(<< Text >>)

\* The trees a run starts from.
Disks ==
  { (FooPath :> FileCommented) @@ (BarPath :> None),
    (FooPath :> FileMalformed) @@ (BarPath :> FileRenamed),
    (FooPath :> None) @@ (BarPath :> FileCommented),
    (FooPath :> FileRenamed) @@ (BarPath :> FileShort) }

(***************************************************************************)
(* Actions.                                                                *)
(***************************************************************************)
\* The state when parsePatch is called, for a tree of `disks`, a reference
\* file of `refs` (None: the option -t is not given) and a registry of
\* `registries`.
InitCall(disks, refs, registries) ==
  /\ disk \in disks
  /\ gDescriptorList \in registries
  /\ gOutputTestPath \in refs
  /\ signal = ""
  /\ opened = <<>>
  /\ gFilePathToCommentRangeMap = <<>>
  /\ patch = <<>>
  /\ line = <<>>
  /\ lineNo = 0
  /\ pc = "parse"
  /\ raised = ""
  /\ loopExit = ""
  /\ run = 1
  /\ firstResult = None
  /\ errorsPrinted = <<>>
  /\ infosPrinted = <<>>
  /\ LET f == InitialFrame(<<>>)
     IN /\ currentIDLFile = f.currentIDLFile
        /\ currentIDLPath = f.currentIDLPath
        /\ currentIDLFileWasDeleted = f.currentIDLFileWasDeleted
        /\ currentInterfaceName = f.currentInterfaceName
        /\ previousInterfaceName = f.previousInterfaceName
        /\ needInterfaceName = f.needInterfaceName
        /\ foundIIDChangeLine = f.foundIIDChangeLine
        /\ interfaceMayBeRemoved = f.interfaceMayBeRemoved
        /\ lastUUIDChangeLineSeen = f.lastUUIDChangeLineSeen
        /\ currentInterfaceWasRenamed = f.currentInterfaceWasRenamed
        /\ currentLineNumber = f.currentLineNumber
        /\ lastLineWasRemoval = f.lastLineWasRemoval
        /\ interfacesRequiringNewIID = f.interfacesRequiringNewIID
        /\ revvedInterfaces = f.revvedInterfaces
        /\ interfaceNameIDLMap = f.interfaceNameIDLMap
        /\ fileWarningsIssued = f.fileWarningsIssued
        /\ idlStart = f.idlStart /\ iidRemoval = f.iidRemoval /\ cmt = f.cmt
        /\ constEx = f.constEx /\ change = f.change
        /\ binaryCompat = f.binaryCompat /\ descr = f.descr

\* The state when main calls parsePatch.
InitRun(disks, refs) == InitCall(disks, refs, {DescriptorsOfMain})

\* A run without the option -t.
InitWith(disks) == InitRun(disks, {None})

\* The frame g becomes the state of parsePatch.
Assign(g) ==
  /\ currentIDLFile' = g.currentIDLFile
  /\ currentIDLPath' = g.currentIDLPath
  /\ currentIDLFileWasDeleted' = g.currentIDLFileWasDeleted
  /\ currentInterfaceName' = g.currentInterfaceName
  /\ previousInterfaceName' = g.previousInterfaceName
  /\ needInterfaceName' = g.needInterfaceName
  /\ foundIIDChangeLine' = g.foundIIDChangeLine
  /\ interfaceMayBeRemoved' = g.interfaceMayBeRemoved
  /\ lastUUIDChangeLineSeen' = g.lastUUIDChangeLineSeen
  /\ currentInterfaceWasRenamed' = g.currentInterfaceWasRenamed
  /\ currentLineNumber' = g.currentLineNumber
  /\ lastLineWasRemoval' = g.lastLineWasRemoval
  /\ interfacesRequiringNewIID' = g.interfacesRequiringNewIID
  /\ revvedInterfaces' = g.revvedInterfaces
  /\ interfaceNameIDLMap' = g.interfaceNameIDLMap
  /\ fileWarningsIssued' = g.fileWarningsIssued
  /\ idlStart' = g.idlStart /\ iidRemoval' = g.iidRemoval /\ cmt' = g.cmt
  /\ constEx' = g.constEx /\ change' = g.change
  /\ binaryCompat' = g.binaryCompat /\ descr' = g.descr
  /\ gFilePathToCommentRangeMap' = g.map

\* One iteration of "for line in aInputPatch" (839-1027) on line l.
Iterate(l) ==
  /\ pc = "parse"
  /\ LET g == LoopBody(Frame, l)
     IN /\ Assign(g)
        /\ opened' = g.opened
        /\ line' = l
        /\ lineNo' = lineNo + 1
        /\ loopExit' = IF g.raised # "" THEN "raise" ELSE g.loopExit
        /\ raised' = g.raised
        /\ pc' = IF g.raised # "" THEN "raised" ELSE "parse"
  /\ UNCHANGED <<disk, gDescriptorList, run, firstResult, errorsPrinted,
                 infosPrinted, gOutputTestPath, signal>>

\* The next line of a patch that is read as it comes, any line of `lines`.
ReadLine(lines) ==
  /\ run = 1
  /\ lineNo < MaxPatchLen
  /\ \E l \in lines : Iterate(l)
  /\ UNCHANGED patch

\* The same, keeping the lines read.
ReadAndKeep(lines) ==
  /\ run = 1
  /\ lineNo < MaxScenarioLen
  /\ \E l \in lines : Iterate(l) /\ patch' = Append(patch, l)

\* parsePatch is called again on the patch it has just read to its end: its
\* locals start afresh (815-837), the global cache of ranges is kept.
Rerun ==
  /\ pc = "parse" /\ run = 1 /\ lineNo > 0
  /\ run' = 2
  /\ firstResult' = Some(<<interfacesRequiringNewIID, revvedInterfaces, interfaceNameIDLMap>>)
  /\ Assign(InitialFrame(gFilePathToCommentRangeMap))
  /\ line' = <<>> /\ lineNo' = 0 /\ loopExit' = ""
  /\ UNCHANGED <<disk, opened, gDescriptorList, patch, pc, raised, errorsPrinted,
                 infosPrinted, gOutputTestPath, signal>>

\* The next line of the kept patch in the second call.
Replay ==
  /\ run = 2 /\ lineNo < Len(patch)
  /\ Iterate(patch[lineNo + 1])
  /\ UNCHANGED patch

\* unrevvedInterfaces without the test of 1104: every interface that needs
\* a new IID counts as unrevved.
unrevvedInterfaces_All == interfacesRequiringNewIID

\* main, 1097-1133, once the patch is exhausted: the interfaces that need a
\* new IID and were not revved are reported as errors, in order, with their
\* file; the others as (verbose) information.
unrevvedInterfaces ==
  SelectSeq(interfacesRequiringNewIID, LAMBDA i : ~InList(i, revvedInterfaces))

\* The exception the reporting loop raises for the list `unrevved`, "" for
\* none: a name without a file (KeyError) or with the file None (TypeError in
\* the concatenation of the message).
ReportRaises(unrevved) ==
  IF \E i \in 1..Len(unrevved) : unrevved[i] \notin DOMAIN interfaceNameIDLMap
  THEN "KeyError@1124"
  ELSE IF \E i \in 1..Len(unrevved) : IsNone(interfaceNameIDLMap[unrevved[i]])
  THEN "TypeError@1125"
  ELSE ""

\* 1122-1125: the "needs a new IID" message of each name of `unrevved`, as
\* <<interface, file name>>.
Messages(unrevved) ==
  [i \in 1..Len(unrevved) |-> <<unrevved[i], interfaceNameIDLMap[unrevved[i]][1]>>]

\* 1137, 1140: the log the messages were written to is opened again with
\* mode "w+", which empties it, and then read.
ReadTempLines(written) == <<>>

\* 1142-1164: the comparison of the lines read back with the reference lines.
CompareLines(tempLines, refLines) ==
  IF Len(tempLines) # Len(refLines) THEN "UNEXPECTED-TEST-FAIL"
  ELSE IF \E i \in 1..Len(refLines) : refLines[i] # tempLines[i]
  THEN "UNEXPECTED-TEST-FAIL"
  ELSE "TEST-PASS"

\* 1135-1164: the self-test of the messages `written` to the log.
SelfTest(written, refLines) == CompareLines(ReadTempLines(written), refLines)

\* errorsPrinted holds <<interface, file name>> for each "needs a new IID"
\* message printed (with -t the messages go to the log instead), infosPrinted
\* the interface of each "Looks good." message.
Report ==
  /\ pc = "parse"
  /\ run = 2 => lineNo = Len(patch)
  /\ infosPrinted' =
       SelectSeq(interfacesRequiringNewIID, LAMBDA i : InList(i, revvedInterfaces))
  /\ raised' = ReportRaises(unrevvedInterfaces)
  /\ pc' = IF ReportRaises(unrevvedInterfaces) = "" THEN "done" ELSE "raised"
  /\ errorsPrinted' =
       IF ReportRaises(unrevvedInterfaces) # "" \/ ~IsNone(gOutputTestPath)
       THEN errorsPrinted
       ELSE Messages(unrevvedInterfaces)
  /\ signal' =
       IF ReportRaises(unrevvedInterfaces) # "" \/ IsNone(gOutputTestPath)
       THEN signal
       ELSE SelfTest(Messages(unrevvedInterfaces), gOutputTestPath[1])
  /\ UNCHANGED <<disk, opened, gFilePathToCommentRangeMap, gDescriptorList, patch,
                 run, firstResult, gOutputTestPath, locals>>

Init == InitWith(Disks)

Next == ReadLine(PatchLines) \/ Report

Spec == Init /\ [][Next]_vars

(***************************************************************************)
(* Scenarios: the patch is kept, its lines drawn from the lines of one      *)
(* scenario, the tree from the trees the scenario is about.                 *)
(***************************************************************************)
\* A descriptor-annotated member is added to nsIFoo, with or without a change
\* of its IID.
DescriptorLines == {HdrFoo, HunkFoo, DefFoo, DescrAdded, UuidRemoved, UuidAdded}

DescriptorDisks ==
  { (FooPath :> FileCommented) @@ (BarPath :> None),
    (FooPath :> None) @@ (BarPath :> None) }

InitDescriptor == InitWith(DescriptorDisks)

NextDescriptor == ReadAndKeep(DescriptorLines) \/ Report

SpecDescriptor == InitDescriptor /\ [][NextDescriptor]_vars

\* An interface is removed or renamed.
RemovalLines ==
  {HdrFoo, HunkFoo, UuidRemoved, DefFooRemoved, DefBarAdded, Removed, BraceRemoved}

RemovalDisks ==
  { (FooPath :> FileRenamed) @@ (BarPath :> None),
    (FooPath :> None) @@ (BarPath :> None) }

InitRemoval == InitWith(RemovalDisks)

NextRemoval == ReadAndKeep(RemovalLines) \/ Report

SpecRemoval == InitRemoval /\ [][NextRemoval]_vars

\* Lines are added to nsIFoo at the top of dir/foo.idl, where the file on
\* disk has a block comment.
CommentLines == {HdrFoo, HunkFoo, Added, CommentAdded, DescrAdded, Unchanged}

CommentDisks ==
  { (FooPath :> FileCommented) @@ (BarPath :> None),
    (FooPath :> FileMalformed) @@ (BarPath :> None) }

InitComment == InitWith(CommentDisks)

NextComment == ReadAndKeep(CommentLines) \/ Report

SpecComment == InitComment /\ [][NextComment]_vars

\* Patches as a tool that exports changesets writes them: an optional
\* preamble, file headers, hunk headers, lines of hunks.
PlainLines == {Preamble, HdrCpp, HdrFoo, Hunk, DefFoo, DescrAdded}

PlainDisks ==
  { (FooPath :> FileCommented) @@ (BarPath :> None),
    (FooPath :> None) @@ (BarPath :> None) }

InitPlain == InitWith(PlainDisks)

NextPlain == ReadAndKeep(PlainLines) \/ Report

SpecPlain == InitPlain /\ [][NextPlain]_vars

\* parsePatch is called twice on the same patch in one process.
TwiceLines == {HdrFoo, HunkFoo, Added, CommentAdded}

TwiceDisks ==
  { (FooPath :> FileCommented) @@ (BarPath :> None),
    (FooPath :> FileMalformed) @@ (BarPath :> None),
    (FooPath :> None) @@ (BarPath :> None) }

InitTwice == InitWith(TwiceDisks)

NextTwice == ReadAndKeep(TwiceLines) \/ Rerun \/ Replay \/ Report

SpecTwice == InitTwice /\ [][NextTwice]_vars

\* The patch touches files that are not in the tree, among them two files of
\* the same name in different directories.
MissingLines == {HdrFoo, HdrFooLib, HunkFoo, Added, DefBarAdded}

MissingDisks ==
  { (FooPath :> None) @@ (FooLibPath :> None) @@ (BarPath :> None),
    (FooPath :> None) @@ (FooLibPath :> FileCommented) @@ (BarPath :> None) }

InitMissing == InitWith(MissingDisks)

NextMissing == ReadAndKeep(MissingLines) \/ Report

SpecMissing == InitMissing /\ [][NextMissing]_vars

\* Lines that are runs of markers, with the headers of a file.
MarkerLexemes == {"+", "-"}

MarkerLines ==
  {<<a>> : a \in MarkerLexemes}
    \cup {<<a, b>> : a \in MarkerLexemes, b \in MarkerLexemes}
    \cup {<<a, b, c>> : a \in MarkerLexemes, b \in MarkerLexemes, c \in MarkerLexemes}
    \cup {HdrFoo, FileMinus, FilePlus, Added, Removed}

MarkerDisks == { (FooPath :> FileCommented) @@ (BarPath :> None) }

InitMarkers == InitWith(MarkerDisks)

NextMarkers == ReadLine(MarkerLines) \/ Report

SpecMarkers == InitMarkers /\ [][NextMarkers]_vars

\* Files are created and deleted.
CreationLines == {HdrFoo, HdrCpp, DevNullMinus, DevNullPlus, DefFooAdded, Added}

CreationDisks == { (FooPath :> FileCommented) @@ (BarPath :> None) }

InitCreation == InitWith(CreationDisks)

NextCreation == ReadAndKeep(CreationLines) \/ Report

SpecCreation == InitCreation /\ [][NextCreation]_vars

\* main runs with the option -t: zero, one or two interfaces need a new IID,
\* and the reference file has comment lines and message lines.
SelfTestLines == {HdrFoo, HunkFoo, Added, DefBar}

SelfTestDisks == { (FooPath :> FileCommented) @@ (BarPath :> None) }

RefComment == <<"#", " ", "expected output">>

MsgFoo == <<"nsIFoo", "foo.idl">>

MsgBar == <<"nsIBar", "foo.idl">>

ReferenceFiles ==
  { <<>>, <<RefComment>>, <<MsgFoo>>, <<RefComment, MsgFoo>>,
    <<MsgFoo, MsgBar>>, <<MsgBar, MsgFoo>> }

InitSelfTest == InitRun(SelfTestDisks, {None} \cup {Some(r) : r \in ReferenceFiles})

NextSelfTest == ReadAndKeep(SelfTestLines) \/ Report

SpecSelfTest == InitSelfTest /\ [][NextSelfTest]_vars

\* Hunks of unchanged, added and removed lines, in a file that is there and
\* in a file that is deleted.
CursorLines == {HdrFoo, DevNullPlus, Hunk, Unchanged, Added, Removed}

CursorDisks == { (FooPath :> FileRenamed) @@ (BarPath :> None) }

InitCursor == InitWith(CursorDisks)

NextCursor == ReadAndKeep(CursorLines) \/ Report

SpecCursor == InitCursor /\ [][NextCursor]_vars

\* Hunk headers with and without an interface, in two files, before and
\* after the definition line of another interface.
ContextLines == {HdrFoo, HdrBar, DevNullPlus, Hunk, HunkBar, DefFoo}

ContextDisks == { (FooPath :> FileCommented) @@ (BarPath :> None) }

InitContext == InitWith(ContextDisks)

NextContext == ReadAndKeep(ContextLines) \/ Report

SpecContext == InitContext /\ [][NextContext]_vars

\* nsIFoo is renamed to nsIBar (its IID line is removed), and a member is
\* added to nsIBaz further down the same file.
RenameLines == {HdrFoo, HunkFoo, UuidRemoved, DefBarAdded, HunkBaz, Added}

RenameDisks == { (FooPath :> FileRenamed) @@ (BarPath :> None) }

InitRename == InitWith(RenameDisks)

NextRename == ReadAndKeep(RenameLines) \/ Report

SpecRename == InitRename /\ [][NextRename]_vars

\* parsePatch is called with registries other than the one of main: a
\* descriptor that is not flagged, alone and with a flagged one, and none.
RegistryLines == {HdrFoo, HunkFoo, DescrAdded, Added, UuidAdded}

RegistryDisks == { (FooPath :> FileCommented) @@ (BarPath :> None) }

Registries ==
  { DescriptorsOfMain,
    << IDLDescriptor("notxpcom", FALSE) >>,
    << IDLDescriptor("notxpcom", FALSE), IDLDescriptor("nostdcall", TRUE) >>,
    << IDLDescriptor("nostdcall", TRUE) >>,
    << >> }

InitRegistry == InitCall(RegistryDisks, {None}, Registries)

NextRegistry == ReadLine(RegistryLines) \/ Report

SpecRegistry == InitRegistry /\ [][NextRegistry]_vars

\* The lines a file of blocks is made of: the start and the end of a block
\* comment and of an escape block, and a block comment on one line.
CmtOpen == <<"/*">>

CmtClose == <<" ", "*/">>

CppOpen == <<"%{", "C++">>

CppClose == <<"%}">>

CmtOneLine == <<"/*", " ", "about", " ", "*/">>

BlockLines == {CmtOpen, CmtClose, CppOpen, CppClose, CmtOneLine}

\* dir/foo.idl is any file of up to MaxFileLen such lines, or one of a few
\* longer files; the patch adds lines to it, which has the file scanned.
BlockFiles ==
  UNION {[1..n -> BlockLines] : n \in 1..MaxFileLen}
    \cup { <<CppOpen, CmtOpen, CmtOneLine, CmtClose, CppClose>>,
           <<CmtOpen, CmtClose, CmtOneLine, CppOpen, CmtOpen, CmtClose, CppClose>>,
           <<Text, CppClose, Text, CmtOpen, Text, CmtClose>>,
           <<CppOpen, Text, CmtClose, CppClose, CmtOpen, CmtClose>> }

BlockDisks == { (FooPath :> Some(f)) @@ (BarPath :> None) : f \in BlockFiles }

BlockPatchLines == {HdrFoo, Added}

InitBlocks == InitWith(BlockDisks)

NextBlocks == ReadLine(BlockPatchLines) \/ Report

SpecBlocks == InitBlocks /\ [][NextBlocks]_vars

\* Constants are added to and removed from nsIFoo, with and without white
\* space after the marker.
ConstLines == {HdrFoo, HunkFoo, ConstAdded, ConstAddedTight, ConstRemoved, Added}

ConstDisks == { (FooPath :> FileRenamed) @@ (BarPath :> None) }

InitConst == InitWith(ConstDisks)

NextConst == ReadAndKeep(ConstLines) \/ Report

SpecConst == InitConst /\ [][NextConst]_vars

\* Hunk headers of the usual shape and others: one without line counts, one
\* whose first number is no number, and a bare "@@".
HunkNoCount == <<"@@", " ", "-", "2", " ", "+", "2", " ", "@@">>

HunkBad == <<"@@", " ", "-", "x", ",", "3", " ", "+", "2", ",", "4", " ", "@@">>

HunkBare == <<"@@">>

HunkLines == {HdrFoo, Hunk, HunkBar, HunkNoCount, HunkBad, HunkBare, Added}

HunkDisks == { (FooPath :> FileRenamed) @@ (BarPath :> None) }

InitHunks == InitWith(HunkDisks)

NextHunks == ReadLine(HunkLines) \/ Report

SpecHunks == InitHunks /\ [][NextHunks]_vars

\* Sections of an IDL file and of another file, with definition lines of two
\* interfaces, a hunk header that names an interface and an added member.
SectionLines == {HdrFoo, HdrCpp, HunkBar, DefFoo, DefBar, Added}

SectionDisks == { (FooPath :> FileCommented) @@ (BarPath :> None) }

InitSections == InitWith(SectionDisks)

NextSections == ReadAndKeep(SectionLines) \/ Report

SpecSections == InitSections /\ [][NextSections]_vars

(***************************************************************************)
(* Claims.                                                                 *)
(***************************************************************************)
\* The elements of a list.
Range(list) == {list[i] : i \in 1..Len(list)}

\* C1: for every patch line that reaches the verdict step,
\* currentInterfaceName is in interfacesRequiringNewIID after the verdict if
\* and only if the line carries a binary-compat descriptor, or the interface
\* was not renamed, the line has no descriptor, is no IID removal, no comment,
\* no constant expression, is an addition or removal and currentInterfaceName
\* is set; no other step adds a name.  (The end of a removed interface, on
\* the same line, may take the name out again.)
C1_VerdictCondition ==
  \/ areDescriptorsInLineAffectingBinaryCompat(line')
  \/ /\ ~currentInterfaceWasRenamed' /\ ~hasDescriptorsInLine(line')
     /\ ~isLineIIDRemoval(line') /\ ~cmt' /\ ~isLineConstantExpression(line')
     /\ isLineChange(line') /\ Truthy(currentInterfaceName')

C1_Retracted ==
  isEndOfInterfaceRemoval(line') /\ interfaceMayBeRemoved /\ ~interfaceMayBeRemoved'

C1_ReachesVerdict ==
  lineNo' = lineNo + 1 /\ (loopExit' = "end@1027" \/ raised' = "TypeError@1009")

C1_VerdictStep ==
  IF C1_ReachesVerdict
  THEN /\ C1_VerdictCondition =>
            /\ raised' = ""
            /\ ~IsNone(currentInterfaceName')
            /\ \/ InList(currentInterfaceName'[1], interfacesRequiringNewIID')
               \/ C1_Retracted
       /\ \A n \in Range(interfacesRequiringNewIID') :
            \/ n \in Range(interfacesRequiringNewIID)
            \/ C1_VerdictCondition /\ currentInterfaceName' = Some(n)
  ELSE Range(interfacesRequiringNewIID') \subseteq Range(interfacesRequiringNewIID)

C1_VerdictIff == [][C1_VerdictStep]_vars

\* C2: after every processed patch line and at the end of parsePatch, every
\* name in interfacesRequiringNewIID is a key of interfaceNameIDLMap, so the
\* lookup main does for each unrevved interface never raises KeyError.
C2_RequiredInterfacesHaveFile ==
  /\ \A i \in 1..Len(interfacesRequiringNewIID) :
        interfacesRequiringNewIID[i] \in DOMAIN interfaceNameIDLMap
  /\ raised # "KeyError@1124"

\* C2 witness: main has looked up the file of an unrevved interface and
\* reported it.
C2_Witness == pc = "done" /\ Len(errorsPrinted) > 0 /\ Len(interfacesRequiringNewIID) = 2

\* A patch that ends with the removal of nsIFoo: its IID line, its definition
\* line, removed lines of its body (the lines before its closing brace, the
\* first line that starts with a brace) and its closing brace, all removal
\* lines.
C3_Scenario(p) ==
  \E i \in 1..Len(p) :
    /\ i + 1 < Len(p)
    /\ p[i] = UuidRemoved /\ p[i + 1] = DefFooRemoved
    /\ \A j \in (i + 2)..(Len(p) - 1) :
         /\ isRemovalLine(p[j]) /\ ~isEndOfInterfaceRemoval(p[j])
         /\ ~isLineIIDDefinition(p[j]) /\ ~isInterfaceDefinitionLine(p[j])
    /\ isEndOfInterfaceRemoval(p[Len(p)])

\* C3: when a patch removes the IID line of an interface and then the whole
\* interface with removal lines only, ending with its removed closing brace,
\* the interface is not in interfacesRequiringNewIID at the end of parsePatch.
C3_PureRemovalExcluded ==
  (C3_Scenario(patch) /\ raised = "") => ~InList("nsIFoo", interfacesRequiringNewIID)

\* C3 witness: main has reported on such a patch, whose removed definition
\* line had put nsIFoo on the list and whose closing brace took it off.
C3_Witness ==
  /\ pc = "done" /\ C3_Scenario(patch)
  /\ ~currentInterfaceWasRenamed /\ ~interfaceMayBeRemoved
  /\ currentInterfaceName = Some("nsIFoo")

\* The positions of the change lines, of the IID lines and of the IDL file
\* headers of a patch.
ChangeLinesOf(p) == {i \in 1..Len(p) : isLineChange(p[i])}

IIDLinesOf(p) == {i \in 1..Len(p) : isLineIIDDefinition(p[i])}

HeadersOf(p) == {i \in 1..Len(p) : isLineStartOfNewFile(p[i])}

\* A patch on foo.idl whose only change lines are the removed definition line
\* of nsIFoo and the added definition line of nsIBar, on a tree whose
\* dir/foo.idl does not mention nsIFoo.
C4_Scenario(p) ==
  /\ HeadersOf(p) = {1} /\ p[1] = HdrFoo
  /\ IIDLinesOf(p) = {}
  /\ \E k \in 2..(Len(p) - 1) :
       /\ ChangeLinesOf(p) = {k, k + 1}
       /\ p[k] = DefFooRemoved /\ p[k + 1] = DefBarAdded
  /\ ~IsNone(disk[FooPath])
  /\ \A i \in 1..Len(disk[FooPath][1]) : ~LineMentions(disk[FooPath][1][i], "nsIFoo")

\* C4: when the only change to an interface is its name (a removed definition
\* line with the old name, an added one with the new name, the old name
\* absent from the file on disk), neither name is in
\* interfacesRequiringNewIID at the end of parsePatch.
C4_RenameNotFlagged ==
  (C4_Scenario(patch) /\ pc = "done") =>
     /\ ~InList("nsIFoo", interfacesRequiringNewIID)
     /\ ~InList("nsIBar", interfacesRequiringNewIID)

\* The lines of dir/foo.idl that a block comment occupies in the trees of
\* SpecComment: "/*" is on line 1 and "*/" on line 3.
C5_CommentedLines == {n \in 1..3 : disk[FooPath][1][1] = <<"/*">> /\ disk[FooPath][1][3] = <<" ", "*/">>}

\* A patch on foo.idl of one hunk that starts at line 2 inside nsIFoo and
\* only adds lines: line i of the patch is line i - 1 of the file.  Every
\* change line starts with "//" or lies inside the block comment of the file
\* on disk, and no IID line changes.
C5_Scenario(p) ==
  /\ Len(p) >= 3 /\ p[1] = HdrFoo /\ p[2] = HunkFoo
  /\ HeadersOf(p) = {1} /\ IIDLinesOf(p) = {}
  /\ \A i \in 3..Len(p) : ~isContextLine(p[i]) /\ ~isRemovalLine(p[i])
  /\ ChangeLinesOf(p) # {}
  /\ \A i \in ChangeLinesOf(p) : StartsLineComment(p[i]) \/ (i - 1) \in C5_CommentedLines

\* C5: when every change line attributed to an interface starts with "//"
\* or lies inside a block comment of the IDL file on disk, and no IID line
\* changes, the interface is not in interfacesRequiringNewIID at the end of
\* parsePatch.
C5_CommentsNotFlagged ==
  (C5_Scenario(patch) /\ pc = "done") => ~InList("nsIFoo", interfacesRequiringNewIID)

\* A patch on foo.idl whose only change line adds a [notxpcom] member inside
\* interface nsIFoo (named by a context line or a hunk header before it),
\* with no IID line.
C6_Scenario(p) ==
  /\ HeadersOf(p) = {1} /\ p[1] = HdrFoo
  /\ IIDLinesOf(p) = {}
  /\ \E k \in 1..Len(p) :
       /\ ChangeLinesOf(p) = {k} /\ p[k] = DescrAdded
       /\ \E j \in 2..(k - 1) : p[j] \in {DefFoo, HunkFoo}

\* C6: for a patch on foo.idl whose only change line is
\* "+ [notxpcom] long getValue();" inside interface nsIFoo, with no IID change
\* line, parsePatch ends normally with nsIFoo in interfacesRequiringNewIID
\* and not in revvedInterfaces, and main reports that nsIFoo in foo.idl needs
\* a new IID.
C6_DescriptorNeedsNewIID ==
  C6_Scenario(patch) =>
    /\ raised = ""
    /\ InList("nsIFoo", interfacesRequiringNewIID)
    /\ ~InList("nsIFoo", revvedInterfaces)
    /\ pc = "done" => errorsPrinted = << <<"nsIFoo", "foo.idl">> >>

\* C6 witness: main has reported on such a patch.
C6_Witness == pc = "done" /\ C6_Scenario(patch)

\* The same patch with a removed and an added IID line right before the
\* definition line of nsIFoo.
C7_Scenario(p) ==
  /\ HeadersOf(p) = {1} /\ p[1] = HdrFoo
  /\ \E i \in 2..Len(p), k \in 2..Len(p) :
       /\ i + 2 < k
       /\ p[i] = UuidRemoved /\ p[i + 1] = UuidAdded /\ p[i + 2] = DefFoo
       /\ p[k] = DescrAdded
       /\ IIDLinesOf(p) = {i, i + 1}
       /\ ChangeLinesOf(p) = {i, i + 1, k}

\* C7: with a "-uuid(OLD)" line and a "+uuid(NEW)" line right before the
\* definition line of nsIFoo, parsePatch returns nsIFoo in both
\* interfacesRequiringNewIID and revvedInterfaces, and main prints only the
\* "Looks good." message for nsIFoo, no "needs a new IID" message.
C7_RevvedLooksGood ==
  C7_Scenario(patch) =>
    /\ raised = ""
    /\ InList("nsIFoo", interfacesRequiringNewIID)
    /\ InList("nsIFoo", revvedInterfaces)
    /\ pc = "done" => errorsPrinted = <<>> /\ infosPrinted = <<"nsIFoo">>

\* C7 witness: main has reported on such a patch.
C7_Witness == pc = "done" /\ C7_Scenario(patch)

\* C8: main prints a "needs a new IID" message for exactly the names that
\* are in interfacesRequiringNewIID and not in revvedInterfaces, once per
\* name, with the file name interfaceNameIDLMap gives; a name in both lists
\* gets only the "Looks good." message.
C8_Reporting ==
  pc = "done" =>
    /\ \A n \in Range(interfacesRequiringNewIID) :
         /\ (\E i \in 1..Len(errorsPrinted) : errorsPrinted[i][1] = n)
              <=> ~InList(n, revvedInterfaces)
         /\ InList(n, infosPrinted) <=> InList(n, revvedInterfaces)
    /\ \A i \in 1..Len(errorsPrinted) :
         /\ InList(errorsPrinted[i][1], interfacesRequiringNewIID)
         /\ interfaceNameIDLMap[errorsPrinted[i][1]] = Some(errorsPrinted[i][2])
         /\ \A j \in 1..Len(errorsPrinted) :
              errorsPrinted[j][1] = errorsPrinted[i][1] => j = i
    /\ Range(infosPrinted) \subseteq Range(interfacesRequiringNewIID)

\* C8 witness: main has reported one interface as needing a new IID and
\* another, whose IID the patch changes, as looking good.
C8_Witness ==
  /\ pc = "done" /\ Len(errorsPrinted) = 1 /\ Len(infosPrinted) = 1
  /\ errorsPrinted[1][1] # infosPrinted[1]

\* C9: a second call of parsePatch on the same patch, with the same files on
\* disk (present, missing or with block ends that do not pair) and the cache
\* of ranges kept from the first call, returns the same
\* interfacesRequiringNewIID, revvedInterfaces and interfaceNameIDLMap as
\* the first call.
C9_Idempotent ==
  run = 2 =>
    /\ pc # "raised"
    /\ lineNo = Len(patch) =>
         firstResult = Some(<<interfacesRequiringNewIID, revvedInterfaces, interfaceNameIDLMap>>)

\* The kinds of line of a patch.
C10_IsHeader(l) == isLineStartOfNewFile(l)

C10_IsHunkHeader(l) == isContextLine(l)

C10_IsBody(l) == l # Preamble /\ ~C10_IsHeader(l) /\ ~C10_IsHunkHeader(l)

\* The lines read so far begin a well-formed diff: a preamble only as the
\* first line, each file header first or after the preamble or a hunk, each
\* hunk header after a file header or a hunk, each line of a hunk after its
\* hunk header.
C10_WellFormed(p) ==
  \A i \in 1..Len(p) :
    /\ p[i] = Preamble => i = 1
    /\ C10_IsHeader(p[i]) => i = 1 \/ p[i - 1] = Preamble \/ C10_IsBody(p[i - 1])
    /\ C10_IsHunkHeader(p[i]) => i > 1 /\ (C10_IsHeader(p[i - 1]) \/ C10_IsBody(p[i - 1]))
    /\ C10_IsBody(p[i]) => i > 1 /\ (C10_IsHunkHeader(p[i - 1]) \/ C10_IsBody(p[i - 1]))

\* C10: no exception propagates out of parsePatch for a well-formed diff,
\* whether its first line is a preamble or the header of a file that is not
\* an IDL file, whether a descriptor line comes while no interface is
\* current, or a definition line while a previous interface is remembered
\* and no IID removal was seen: the traversal reaches the last line.
C10_NoExceptionPropagates == C10_WellFormed(patch) => loopExit # "raise"

\* The paths of the tree whose file parsePatch has looked up and could not open.
C11_MissingPathsTouched ==
  {p \in DOMAIN gFilePathToCommentRangeMap : IsNone(disk[p])}

\* C11: when the file of the current IDL path cannot be opened, the failure
\* to open it does not end parsePatch, the comment-range lookup of a change
\* line yields false, the rename check yields false, and the number of
\* warnings issued equals the number of distinct missing paths looked up: one
\* for each, also for two missing paths with the same file name.
C11_MissingSourceFile ==
  /\ raised # "IOError@273"
  /\ (/\ ~IsNone(currentIDLPath) /\ IsNone(disk[currentIDLPath[1]])
      /\ loopExit = "end@1027" /\ ~StartsLineComment(line)) => ~cmt
  /\ (~IsNone(currentIDLPath) /\ IsNone(disk[currentIDLPath[1]]))
        => ~currentInterfaceWasRenamed
  /\ Len(fileWarningsIssued) = Cardinality(C11_MissingPathsTouched)

\* C12: over the lookups of one process, each distinct path is passed to
\* open() and scanned once, at its first lookup: no path is opened twice, and
\* the paths opened are the paths the cache holds, from which every later
\* lookup is served.
C12_ScannedOnce ==
  /\ \A i, j \in 1..Len(opened) : opened[i] = opened[j] => i = j
  /\ Range(opened) = DOMAIN gFilePathToCommentRangeMap

\* C12 witness: dir/foo.idl and lib/foo.idl have been looked up, then
\* dir/foo.idl again for a line added after its header came a second time.
C12_Witness ==
  /\ Len(patch) = 6 /\ patch[5] = HdrFoo /\ patch[6] = Added
  /\ opened = <<FooPath, FooLibPath>> /\ loopExit = "end@1027"

\* A line that begins with three pluses or three minuses, as the two header
\* lines that name the files of a diff do.
C13_HeaderMarked(l) ==
  Len(l) >= 3 /\ SubSeq(l, 1, 3) \in {<<"+", "+", "+">>, <<"-", "-", "-">>}

\* C13: for the line parsePatch has just read, isAdditionLine and
\* isRemovalLine are not both true, isLineChange is true exactly when one of
\* them is, and a line that begins with +++ or --- is neither; so the flag
\* updateFileMetadata returns is true exactly for a removal line, and the
\* `change` of the verdict exactly for an addition or a removal line.
C13_MarkersExclusive ==
  /\ ~(isAdditionLine(line) /\ isRemovalLine(line))
  /\ isLineChange(line) <=> (isAdditionLine(line) \/ isRemovalLine(line))
  /\ C13_HeaderMarked(line) => (~isAdditionLine(line) /\ ~isRemovalLine(line))
  /\ lineNo > 0 => (lastLineWasRemoval <=> isRemovalLine(line))
  /\ loopExit = "end@1027" => (change <=> (isAdditionLine(line) \/ isRemovalLine(line)))

\* C13 witness: the header line "+++ b/dir/foo.idl" has gone through the
\* whole loop body as a line that is no change.
C13_Witness ==
  line = FilePlus /\ loopExit = "end@1027" /\ ~change /\ ~lastLineWasRemoval

\* The lines read so far end inside a file whose "--- /dev/null" line says
\* that the patch creates it: no header of a file has come since that line.
C14_InCreatedFile ==
  \E i \in 1..Len(patch) :
    /\ doesLineSignifyCreation(patch[i])
    /\ \A j \in (i + 1)..Len(patch) : ~isLineStartOfNewFile(patch[j])

C14_SkipStep ==
  /\ (lineNo' = lineNo + 1 /\ raised' = "" /\ doesLineSignifyCreation(line'))
       => currentIDLFileWasDeleted' = Some(TRUE)
  /\ (/\ lineNo' = lineNo + 1 /\ raised' = ""
      /\ C14_InCreatedFile /\ ~isLineStartOfNewFile(line'))
       => /\ loopExit' = "continue@864"
          /\ UNCHANGED <<interfacesRequiringNewIID, revvedInterfaces, interfaceNameIDLMap>>

\* C14: a "--- /dev/null" line marks the current file as deleted, and every
\* line after it is skipped, changing none of interfacesRequiringNewIID,
\* revvedInterfaces and interfaceNameIDLMap, until the next header of a file
\* (for the lines parsePatch reads without raising).
C14_CreatedFileSkipped == [][C14_SkipStep]_vars

\* The lines of a reference file that do not begin with "#".
C15_WithoutComments(refLines) == SelectSeq(refLines, LAMBDA l : l[1] # "#")

\* C15: with a reference file, main signals TEST-PASS exactly when the
\* "needs a new IID" lines it produced are, in number and order, the lines
\* of the reference file that do not begin with "#", and
\* UNEXPECTED-TEST-FAIL otherwise.
C15_SelfTest ==
  (pc = "done" /\ ~IsNone(gOutputTestPath)) =>
    /\ signal \in {"TEST-PASS", "UNEXPECTED-TEST-FAIL"}
    /\ signal = "TEST-PASS" <=>
         Messages(unrevvedInterfaces) = C15_WithoutComments(gOutputTestPath[1])

\* The value the hunk header "@@ -2,3 +2,4 @@" gives the cursor: its first
\* number minus one.
C16_HunkValue(l) == IF l \in {Hunk, HunkFoo} THEN 2 - 1 ELSE 0

\* The cursor after the line just read, from the cursor and the line before.
C16_Expected ==
  IF isContextLine(line') /\ loopExit' = "end@1027" THEN C16_HunkValue(line')
  ELSE IF isRemovalLine(line') THEN currentLineNumber
  ELSE IF isAdditionLine(line') /\ isRemovalLine(line) THEN currentLineNumber
  ELSE currentLineNumber + 1

C16_CursorStep ==
  (lineNo' = lineNo + 1 /\ raised' = "") => currentLineNumber' = C16_Expected

\* C16: after each patch line currentLineNumber is the value of the hunk
\* header for a processed "@@" line, unchanged for a removal line, unchanged
\* for an addition line right after a removal line, and one more than before
\* for every other line; so a second addition after a removal advances it.
C16_CursorUpdate == [][C16_CursorStep]_vars

\* C16 witness: after a hunk header of value 1, a removal and an addition leave
\* the cursor at 1 and the second addition moves it to 2.
C16_Witness ==
  /\ patch = <<HdrFoo, Hunk, Removed, Added, Added>>
  /\ currentLineNumber = 2 /\ loopExit = "end@1027"

\* The lines of the file before the patch that the lines h+1 .. n of patch p
\* stand for: the unchanged and the removed ones.
C17_PrePatchLines(p, h, n) ==
  {j \in (h + 1)..n : p[j] = Unchanged \/ isRemovalLine(p[j])}

\* The lines of the file after the patch among them.
C17_PostPatchLines(p, h, n) ==
  {j \in (h + 1)..n : p[j] = Unchanged \/ isAdditionLine(p[j])}

\* Line h of patch p is the header "@@ -2,3 +2,4 @@" and the lines after it
\* begin a hunk this header is correct for: at most 3 lines of the file
\* before the patch and at most 4 of the file after it.
C17_InHunk(p, h) ==
  /\ p[1] = HdrFoo /\ p[h] = Hunk /\ h < Len(p)
  /\ \A j \in (h + 1)..Len(p) : p[j] \in {Unchanged, Added, Removed}
  /\ Cardinality(C17_PrePatchLines(p, h, Len(p))) <= 3
  /\ Cardinality(C17_PostPatchLines(p, h, Len(p))) <= 4

\* C17: at every unchanged line and every removal line of a hunk whose header
\* is correct, currentLineNumber is the number that line has in the file
\* before the patch: the first number of the header plus the number of
\* unchanged and removed lines of the hunk before it.
C17_CursorIsPrePatchLine ==
  \A h \in 1..Len(patch) :
    (/\ C17_InHunk(patch, h) /\ raised = ""
     /\ patch[Len(patch)] = Unchanged \/ isRemovalLine(patch[Len(patch)]))
      => currentLineNumber = 2 + Cardinality(C17_PrePatchLines(patch, h, Len(patch) - 1))

\* The line just read went through the loop body as far as the capture of
\* the interface name (929): it was not skipped.
C18_Processed ==
  /\ lineNo' = lineNo + 1
  /\ loopExit' = "end@1027" \/ (raised' # "" /\ raised' # "UnboundLocalError@861")

\* The line just read is a definition line, read while a name was needed.
C18_Captured ==
  /\ isInterfaceDefinitionLine(line')
  /\ needInterfaceName \/ ~Truthy(currentInterfaceName)

\* Every name in revvedInterfaces has its definition line in the patch, after
\* an IID-addition line with no IDL file header in between.
C18_AdditionPrecedes ==
  \A n \in Range(revvedInterfaces) :
    \E i \in 1..Len(patch), j \in 1..Len(patch) :
      /\ i < j /\ isLineIIDAddition(patch[i])
      /\ isInterfaceDefinitionLine(patch[j])
      /\ extractInterfaceNameFromDefinitionLine(patch[j]) = Some(n)
      /\ \A k \in (i + 1)..(j - 1) : ~isStartOfIDLFile(patch[k])

C18_FlagStep ==
  /\ IF C18_Processed
     THEN /\ revvedInterfaces' =
               IF C18_Captured /\ foundIIDChangeLine
               THEN Append(revvedInterfaces, extractInterfaceNameFromDefinitionLine(line')[1])
               ELSE revvedInterfaces
          /\ foundIIDChangeLine' =
               IF C18_Captured THEN FALSE
               ELSE IF isLineIIDAddition(line') THEN TRUE
               ELSE IF isLineIIDDefinition(line') \/ isStartOfIDLFile(line') THEN FALSE
               ELSE foundIIDChangeLine
     ELSE UNCHANGED <<revvedInterfaces, foundIIDChangeLine>>
  /\ C18_AdditionPrecedes'

C19_RemovalPending ==
  \E i \in 1..Len(patch) :
    /\ isLineIIDRemoval(patch[i])
    /\ \A j \in (i + 1)..Len(patch) :
         ~isAdditionLine(patch[j]) /\ ~isStartOfIDLFile(patch[j])

\* The line just read took a name off interfacesRequiringNewIID.
C19_Retraction ==
  \E n \in Range(interfacesRequiringNewIID) : n \notin Range(interfacesRequiringNewIID')

C19_FlagStep ==
  /\ interfaceMayBeRemoved' => C19_RemovalPending'
  /\ C19_Retraction => ~interfaceMayBeRemoved'
  /\ (C18_Processed /\ isLineIIDRemoval(line')) => interfaceMayBeRemoved'

\* C19: after every patch line interfaceMayBeRemoved is true only if an
\* IID-removal line has been read with no addition line and no IDL file
\* header after it and no name retracted since; every processed IID-removal
\* line sets it to true.
C19_MayBeRemovedFlag == [][C19_FlagStep]_vars

\* C19 witness: the flag set by the removed IID line of nsIFoo is still true
\* after a removed line of its body.
C19_Witness ==
  /\ patch = <<HdrFoo, HunkFoo, UuidRemoved, Removed>>
  /\ interfaceMayBeRemoved /\ loopExit = "end@1027"

C20_RetractStep ==
  (/\ lineNo' = lineNo + 1 /\ loopExit' = "end@1027"
   /\ isEndOfInterfaceRemoval(line') /\ interfaceMayBeRemoved)
    => /\ ~(/\ Truthy(currentInterfaceName')
            /\ InList(currentInterfaceName'[1], interfacesRequiringNewIID'))
       /\ ~interfaceMayBeRemoved'

\* C20: after every processed end-of-interface-removal line read while
\* interfaceMayBeRemoved is true, currentInterfaceName is not in
\* interfacesRequiringNewIID and interfaceMayBeRemoved is false.
C20_Retraction == [][C20_RetractStep]_vars

\* The line just read is a file-start header that went through the whole
\* loop body.
C21_HeaderProcessed ==
  lineNo' = lineNo + 1 /\ loopExit' = "end@1027" /\ isLineStartOfNewFile(line')

C21_EntryStep ==
  /\ C21_HeaderProcessed =>
       /\ currentInterfaceName' = None
       /\ previousInterfaceName' = currentInterfaceName
       /\ ~currentInterfaceWasRenamed'
       /\ lastUUIDChangeLineSeen' = None
       /\ ~foundIIDChangeLine'
  /\ (lineNo' = lineNo + 1 /\ ~Truthy(currentInterfaceName'))
       => interfacesRequiringNewIID' = interfacesRequiringNewIID

\* C21: after every processed file-start header line, of an IDL file or of
\* another file, currentInterfaceName is unset, previousInterfaceName is the
\* currentInterfaceName of before the line, currentInterfaceWasRenamed is
\* false, lastUUIDChangeLineSeen is unset and foundIIDChangeLine is false;
\* and no line adds a name while currentInterfaceName is unset.
C21_FileEntry == [][C21_EntryStep]_vars

\* The interface the trailing text of a hunk header names, None for none.
C22_HeaderName(l) ==
  IF l = HunkFoo THEN Some("nsIFoo") ELSE IF l = HunkBar THEN Some("nsIBar") ELSE None

\* The first number of a hunk header minus one.
C22_HeaderValue(l) == IF l = HunkBar THEN 5 - 1 ELSE 2 - 1

C22_HeaderStep ==
  (lineNo' = lineNo + 1 /\ loopExit' = "end@1027" /\ isContextLine(line')) =>
    /\ currentLineNumber' = C22_HeaderValue(line')
    /\ IF C22_HeaderName(line') # None
       THEN /\ currentInterfaceName' = C22_HeaderName(line')
            /\ C22_HeaderName(line')[1] \in DOMAIN interfaceNameIDLMap'
            /\ interfaceNameIDLMap'[C22_HeaderName(line')[1]] = currentIDLFile'
       ELSE currentInterfaceName' = currentInterfaceName

\* C22: on every processed "@@" line whose trailing text is an interface
\* header, currentInterfaceName becomes that name on that line, whether or
\* not a name was needed, and interfaceNameIDLMap maps the name to the
\* current IDL file; on a "@@" line without one currentInterfaceName is
\* unchanged; in both cases currentLineNumber is the value of the header.
C22_HunkHeaderSwitches == [][C22_HeaderStep]_vars

\* C22 witness: nsIFoo was captured from its definition line, so no name was
\* needed when the hunk header of nsIBar made nsIBar current.
C22_Witness ==
  /\ patch = <<HdrFoo, DefFoo, HunkBar>>
  /\ ~needInterfaceName /\ currentInterfaceName = Some("nsIBar")
  /\ interfaceNameIDLMap["nsIBar"] = Some("foo.idl") /\ currentLineNumber = 4

\* The line just read is a definition line that reached the rename check of
\* 956 (where no name is needed any more) with a previous interface name, in
\* an IDL file that is on disk.
C23_Checked ==
  /\ C18_Processed /\ isInterfaceDefinitionLine(line')
  /\ Truthy(previousInterfaceName') /\ Truthy(currentIDLPath')
  /\ ~IsNone(disk[currentIDLPath'[1]])

\* The lines of the file on disk the search is to read: those at the list
\* indexes lastUUIDChangeLineSeen .. cursor + 1, the whole file when
\* lastUUIDChangeLineSeen is unset.
C23_Window ==
  LET idlLines == disk[currentIDLPath'[1]][1]
  IN IF IsNone(lastUUIDChangeLineSeen) THEN 1..Len(idlLines)
     ELSE {i \in 1..Len(idlLines) :
             /\ i - 1 >= lastUUIDChangeLineSeen[1]
             /\ i - 1 <= currentLineNumber' + 1}

C23_OldNameInWindow ==
  \E i \in C23_Window :
     LineMentions(disk[currentIDLPath'[1]][1][i], previousInterfaceName'[1])

C23_RenameStep ==
  C23_Checked =>
    currentInterfaceWasRenamed' = (currentInterfaceWasRenamed \/ ~C23_OldNameInWindow)

\* C23: on a definition line that reaches the rename check, a rename is
\* detected (currentInterfaceWasRenamed becomes true) if and only if the
\* previous interface name occurs in none of the lines
\* lastUUIDChangeLineSeen .. cursor + 1 of the IDL file on disk, or in no
\* line of the file when lastUUIDChangeLineSeen is unset.
C23_RenameDetection == [][C23_RenameStep]_vars

\* The names that have a definition line in patch p: a rename is detected on
\* a definition line, for the interface that line defines.
C24_DefinedNames(p) ==
  {extractInterfaceNameFromDefinitionLine(p[i])[1] :
     i \in {j \in 1..Len(p) : isInterfaceDefinitionLine(p[j])}}

\* The names of the hunk headers of patch p that a removed IID line follows:
\* the old names of interfaces that may have been renamed.
C24_OldNames(p) ==
  {extractInterfaceNameFromContextLine(p[i])[1] :
     i \in {j \in 1..Len(p) :
              /\ isInterfaceContextLine(p[j])
              /\ \E k \in (j + 1)..Len(p) : isLineIIDRemoval(p[k])}}

\* The line just read is a change line that is no comment, constant
\* expression, IID line or descriptor line, attributed to an interface that
\* is neither the new nor the old name of a renamed interface.
C24_QualifyingForOther ==
  /\ lineNo' = lineNo + 1 /\ loopExit' = "end@1027"
  /\ change' /\ ~cmt' /\ ~constEx' /\ ~iidRemoval' /\ ~descr'
  /\ ~isLineIIDDefinition(line')
  /\ Truthy(currentInterfaceName')
  /\ currentInterfaceName'[1] \notin C24_DefinedNames(patch') \cup C24_OldNames(patch')

C24_ScopeStep ==
  C24_QualifyingForOther =>
    InList(currentInterfaceName'[1], interfacesRequiringNewIID')

\* C24: a qualifying change line attributed to an interface other than a
\* renamed one adds that interface to interfacesRequiringNewIID, also when a
\* rename was detected earlier in the same IDL file.
C24_RenameScope == [][C24_ScopeStep]_vars

C25_BlankStep ==
  (lineNo' = lineNo + 1 /\ raised' = "" /\ IsEmptyChange(line')) =>
    UNCHANGED << interfacesRequiringNewIID, revvedInterfaces, interfaceNameIDLMap,
                 interfaceMayBeRemoved, needInterfaceName, currentInterfaceName,
                 previousInterfaceName, foundIIDChangeLine,
                 currentInterfaceWasRenamed, lastUUIDChangeLineSeen,
                 currentIDLFile, currentIDLPath, currentIDLFileWasDeleted,
                 fileWarningsIssued >>

\* C25: an addition or removal line whose content after the marker is empty
\* or white space changes none of interfacesRequiringNewIID, revvedInterfaces
\* and interfaceNameIDLMap and none of the traversal flags, among them
\* interfaceMayBeRemoved, needInterfaceName, currentInterfaceName and
\* foundIIDChangeLine; only the line cursor may change.
C25_BlankLineSkipped == [][C25_BlankStep]_vars

\* C26: for every line and every registry,
\* areDescriptorsInLineAffectingBinaryCompat(line) is true if and only if
\* hasDescriptorsInLine(line) is true and some registered descriptor, on the
\* line or not, is flagged as affecting binary compatibility; it is false
\* when a descriptor is on the line and no registered descriptor is flagged.
C26_RegistryFlag ==
  (lineNo > 0 /\ (loopExit = "end@1027" \/ raised = "TypeError@1009")) =>
    /\ binaryCompat = areDescriptorsInLineAffectingBinaryCompat(line)
    /\ binaryCompat <=>
         /\ hasDescriptorsInLine(line)
         /\ \E d \in 1..Len(gDescriptorList) : gDescriptorList[d].mBinaryCompat

\* Start lines and end lines of blocks, and the kind of block of each.
C27_IsOpen(l) == l \in {CmtOpen, CppOpen}

C27_IsClose(l) == l \in {CmtClose, CppClose}

C27_Kind(l) == IF l \in {CmtOpen, CmtClose} THEN "comment" ELSE "cpp"

\* The number of blocks open after line k of file f, the lines of `ign`
\* not counted.
C27_Depth(f, k, ign) ==
  Cardinality({i \in 1..k : i \notin ign /\ C27_IsOpen(f[i])})
    - Cardinality({i \in 1..k : i \notin ign /\ C27_IsClose(f[i])})

\* The start line the end line j of file f closes: the one that opened the
\* innermost block still open at j (a set of one line, or none).
C27_Match(f, j, ign) ==
  {i \in 1..(j - 1) :
     /\ i \notin ign /\ C27_IsOpen(f[i])
     /\ C27_Depth(f, i, ign) - 1 = C27_Depth(f, j, ign)
     /\ \A k \in i..(j - 1) : C27_Depth(f, k, ign) >= C27_Depth(f, i, ign)}

\* The end lines of file f outside `ign`.
C27_Closes(f, ign) == {j \in 1..Len(f) : j \notin ign /\ C27_IsClose(f[j])}

\* Every end line closes a start line of its own kind.
C27_ProperlyNested(f, ign) ==
  \A j \in C27_Closes(f, ign) :
     /\ C27_Match(f, j, ign) # {}
     /\ \A i \in C27_Match(f, j, ign) : C27_Kind(f[i]) = C27_Kind(f[j])

\* The ranges of the matched pairs of file f.
C27_Pairs(f, ign) ==
  UNION {{SpecialBlockRange(i, j) : i \in C27_Match(f, j, ign)} :
           j \in C27_Closes(f, ign)}

\* dir/foo.idl has been scanned: its ranges are in the cache.
C27_Scanned == FooPath \in DOMAIN gFilePathToCommentRangeMap

\* The list in the cache holds the ranges of the matched pairs of file f, the
\* lines of `ign` not counted, each once.
C27_RangesAre(f, ign) ==
  LET ranges == gFilePathToCommentRangeMap[FooPath]
  IN /\ Range(ranges) = C27_Pairs(f, ign)
     /\ Len(ranges) = Cardinality(C27_Pairs(f, ign))
     /\ \A r \in 1..Len(ranges) : ranges[r].mStartLine <= ranges[r].mEndLine

\* C27: for a file whose start lines and end lines of block comments and
\* escape blocks are properly nested, findAllSpecialBlocksForFile records
\* exactly one range (startLine, endLine) for each matched pair, of either
\* kind, nested or adjacent, with startLine <= endLine; a line with a whole
\* block comment on it adds no range and changes no stack entry.
C27_BlockRanges ==
  (C27_Scanned /\ C27_ProperlyNested(disk[FooPath][1], {}))
    => C27_RangesAre(disk[FooPath][1], {})

\* C27 witness: a block comment with a one-line comment in it, nested in an
\* escape block, gives the ranges (2, 4) and (1, 5).
C27_Witness ==
  /\ disk[FooPath] = Some(<<CppOpen, CmtOpen, CmtOneLine, CmtClose, CppClose>>)
  /\ C27_Scanned
  /\ gFilePathToCommentRangeMap[FooPath] =
       <<SpecialBlockRange(2, 4), SpecialBlockRange(1, 5)>>

\* Line k of file f is an end line met while the stack is empty, in a file
\* that is properly nested but for that line.
C28_EmptyAt(f, k) ==
  /\ C27_IsClose(f[k])
  /\ C27_Depth(f, k - 1, {k}) = 0
  /\ C27_ProperlyNested(f, {k})

\* C28: when findAllSpecialBlocksForFile meets an end line of a block comment
\* or of an escape block while the stack is empty, the line is ignored, no
\* range is recorded for it and the scan goes on to the end of the file: it
\* raises nothing and records the ranges of the pairs of the other lines.
C28_EmptyStackIgnored ==
  C27_Scanned =>
    \A k \in 1..Len(disk[FooPath][1]) :
       C28_EmptyAt(disk[FooPath][1], k) =>
         /\ fileWarningsIssued = <<>>
         /\ C27_RangesAre(disk[FooPath][1], {k})

\* The start line whose entry is on top of the stack before line j of file f.
C29_Top(f, j) ==
  {i \in 1..(j - 1) :
     /\ C27_IsOpen(f[i])
     /\ C27_Depth(f, i, {j}) = C27_Depth(f, j - 1, {j})
     /\ \A k \in i..(j - 1) : C27_Depth(f, k, {j}) >= C27_Depth(f, i, {j})}

\* Line j of file f is an end line that pops an entry of the other type, in a
\* file that is properly nested but for that line.
C29_MismatchAt(f, j) ==
  /\ C27_IsClose(f[j])
  /\ C27_ProperlyNested(f, {j})
  /\ \E i \in C29_Top(f, j) : C27_Kind(f[i]) # C27_Kind(f[j])

\* C29: when an end line pops a stack entry of the other block type,
\* findAllSpecialBlocksForFile puts the entry back, records no range for the
\* line and scans on: it raises nothing and records the ranges of the pairs
\* of the other lines, among them the pair of the entry put back.
C29_MismatchPushedBack ==
  C27_Scanned =>
    \A j \in 1..Len(disk[FooPath][1]) :
       C29_MismatchAt(disk[FooPath][1], j) =>
         /\ fileWarningsIssued = <<>>
         /\ C27_RangesAre(disk[FooPath][1], {j})

\* Line l is an addition or removal line whose content, after any white
\* space, begins with the word const.
C30_IsConstChange(l) ==
  /\ isLineChange(l)
  /\ LET i == SkipSpaces(l, 2) IN i <= Len(l) /\ l[i] = "const"

C30_ConstStep ==
  (lineNo' = lineNo + 1 /\ loopExit' = "end@1027" /\ C30_IsConstChange(line')) =>
    /\ constEx'
    /\ interfacesRequiringNewIID' = interfacesRequiringNewIID

\* C30: every processed addition or removal line whose content after the
\* marker is a const declaration, with any white space or none between the
\* marker and const, is classified as a constant expression and adds no
\* interface to interfacesRequiringNewIID.
C30_ConstNotFlagged == [][C30_ConstStep]_vars

\* The first number a of a hunk header of the shape "@@ -a,b +c,d @@", None
\* for a "@@" line of another shape.
C31_FirstNumber(l) ==
  IF l \in {Hunk, HunkFoo} THEN Some(2) ELSE IF l \in {HunkBar, HunkBaz} THEN Some(5)
  ELSE None

\* The line just read is a "@@" line that reached the statement at 963.
C31_HeaderReached ==
  /\ lineNo' = lineNo + 1 /\ isContextLine(line')
  /\ loopExit' # "continue@864" /\ raised' # "UnboundLocalError@861"

C31_HunkStep ==
  C31_HeaderReached =>
    /\ raised' = ""
    /\ extractLineNumberFromContext(line') =
         <<"ok", IF IsNone(C31_FirstNumber(line')) THEN 0
                 ELSE C31_FirstNumber(line')[1] - 1>>
    /\ currentLineNumber' = extractLineNumberFromContext(line')[2]

\* C31: for a "@@" line that does not have the shape "@@ -a,b +c,d @@",
\* extractLineNumberFromContext returns 0 and the run does not fail; for a
\* line of that shape it returns a - 1.
C31_UnparsableHunkHeader == [][C31_HunkStep]_vars

\* C32: after every processed patch line interfacesRequiringNewIID holds no
\* name more than once, also after a name was retracted at the end of a
\* removed interface and added again later.
C32_NoDuplicates ==
  \A i, j \in 1..Len(interfacesRequiringNewIID) :
    i # j => interfacesRequiringNewIID[i] # interfacesRequiringNewIID[j]

\* C32 witness: nsIFoo was added on its removed definition line, retracted on
\* the removed closing brace and added again on the removed line after it.
C32_Witness ==
  /\ patch = <<HdrFoo, UuidRemoved, DefFooRemoved, BraceRemoved, Removed>>
  /\ interfacesRequiringNewIID = <<"nsIFoo">> /\ loopExit = "end@1027"

\* The last line of patch p is in the section of an IDL file: the last
\* file-start header before it is the header of an IDL file.
C33_InIDLSection(p) ==
  \E i \in 1..(Len(p) - 1) :
    /\ isStartOfIDLFile(p[i])
    /\ \A j \in (i + 1)..Len(p) : ~isLineStartOfNewFile(p[j])

\* The line just read is a definition line that went through the whole loop
\* body, in the section of an IDL file.
C33_DefinitionProcessed ==
  /\ lineNo' = lineNo + 1 /\ loopExit' = "end@1027"
  /\ isInterfaceDefinitionLine(line') /\ C33_InIDLSection(patch')

C33_AttributionStep ==
  C33_DefinitionProcessed =>
    currentInterfaceName' = extractInterfaceNameFromDefinitionLine(line')

\* C33: after every processed interface-definition line (no forward
\* declaration) in the section of an IDL file, currentInterfaceName is the
\* interface that line names, so that later change lines are attributed to
\* it; also when a name was already set (needInterfaceName false) and no IID
\* line precedes the definition line.
C33_Attribution == [][C33_AttributionStep]_vars

\* The last line of patch p is in the section of a file that is no IDL file:
\* after the file-start header of such a file, with no file-start header since.
C34_InNonIDLSection(p) ==
  \E i \in 1..(Len(p) - 1) :
    /\ isLineStartOfNewFile(p[i]) /\ ~isStartOfIDLFile(p[i])
    /\ \A j \in (i + 1)..Len(p) : ~isLineStartOfNewFile(p[j])

C34_SectionStep ==
  (lineNo' = lineNo + 1 /\ C34_InNonIDLSection(patch')) =>
    /\ Range(interfacesRequiringNewIID') \subseteq Range(interfacesRequiringNewIID)
    /\ Range(revvedInterfaces') \subseteq Range(revvedInterfaces)
    /\ DOMAIN interfaceNameIDLMap' \subseteq DOMAIN interfaceNameIDLMap

\* C34: the lines of the section of a file that is no IDL file (from its
\* file-start header to the next file-start header) add no name to
\* interfacesRequiringNewIID, revvedInterfaces or interfaceNameIDLMap, even
\* a line that looks like an interface-definition line or a hunk header that
\* names an interface.
C34_NonIDLSectionInert == [][C34_SectionStep]_vars

\* The last line of patch p is a file-deletion marker or comes after one,
\* with no header of an IDL file since the marker.
C35_AfterDeletion(p) ==
  \E i \in 1..Len(p) :
    /\ doesLineSignifyDeletion(p[i])
    /\ \A j \in (i + 1)..Len(p) : ~isStartOfIDLFile(p[j])

\* Line i of patch p names interface n: as a definition line or as a hunk
\* header.
C35_Names(p, i, n) ==
  \/ isInterfaceDefinitionLine(p[i]) /\ extractInterfaceNameFromDefinitionLine(p[i]) = Some(n)
  \/ isInterfaceContextLine(p[i]) /\ extractInterfaceNameFromContextLine(p[i]) = Some(n)

\* Every interface that needs a new IID is named by a line that is not among
\* the skipped lines of a deleted file.
C35_NotOfDeletedFile ==
  \A n \in Range(interfacesRequiringNewIID) :
    \E i \in 1..Len(patch) :
      C35_Names(patch, i, n) /\ ~C35_AfterDeletion(SubSeq(patch, 1, i))

C35_DeletionStep ==
  /\ (lineNo' = lineNo + 1 /\ C35_AfterDeletion(patch')) =>
       /\ loopExit' = "continue@864"
       /\ UNCHANGED << interfacesRequiringNewIID, revvedInterfaces,
                       interfaceNameIDLMap, currentInterfaceName >>
  /\ (lineNo' = lineNo + 1 /\ isStartOfIDLFile(line')) =>
       /\ currentIDLFileWasDeleted' = Some(FALSE)
       /\ loopExit' = "end@1027"
  /\ (lineNo' = lineNo + 1 /\ raised' = "" /\ ~C35_AfterDeletion(patch')) =>
       loopExit' # "continue@864"
  /\ C35_NotOfDeletedFile'

\* C35: once a file-deletion marker ("+++ /dev/null") has been processed, no
\* line up to the next header of an IDL file changes
\* interfacesRequiringNewIID, revvedInterfaces, interfaceNameIDLMap or
\* currentInterfaceName; the next header of an IDL file re-enables
\* processing; so an interface of a deleted IDL file is never reported.
C35_DeletedFileSkipped == [][C35_DeletionStep]_vars

\* C35 witness: the lines after the deletion marker of dir/foo.idl, among
\* them the added definition line of nsIFoo, left nothing behind, and the
\* lines after the next header of an IDL file are processed again.
C35_Witness ==
  /\ patch = <<HdrFoo, DevNullPlus, DefFooAdded, Added, HdrFoo, Added>>
  /\ loopExit = "end@1027" /\ currentIDLFileWasDeleted = Some(FALSE)
  /\ interfacesRequiringNewIID = <<>> /\ interfaceNameIDLMap = <<>>

\* The list indices at which the loop of 421-426 evaluates idlLines[counter],
\* from `counter` up to `end`: it stops at the first line that mentions the
\* name and at the first index that raises.
RECURSIVE C36_Reads(_, _, _, _)
C36_Reads(name, idlLines, counter, end) ==
  IF counter > end THEN {}
  ELSE IF counter >= Len(idlLines) \/ counter < 0 - Len(idlLines) THEN {counter}
  ELSE LET idx == IF counter >= 0 THEN counter + 1 ELSE Len(idlLines) + counter + 1
       IN IF LineMentions(idlLines[idx], name) THEN {counter}
          ELSE {counter} \cup C36_Reads(name, idlLines, counter + 1, end)

\* The indices the search of the line just read evaluates: none when
\* lastUUIDChangeLineSeen is unset (the comparison at 421 raises first).
C36_IndicesRead ==
  IF IsNone(lastUUIDChangeLineSeen) THEN {}
  ELSE C36_Reads(previousInterfaceName'[1], disk[currentIDLPath'[1]][1],
                 lastUUIDChangeLineSeen[1], currentLineNumber' + 1)

C36_WindowStep ==
  C23_Checked =>
    /\ raised' # "IndexError@422"
    /\ C36_IndicesRead \subseteq 0..(Len(disk[currentIDLPath'[1]][1]) - 1)
    /\ ~IsNone(lastUUIDChangeLineSeen) =>
         Cardinality(C36_IndicesRead)
           <= Cardinality(lastUUIDChangeLineSeen[1]..(currentLineNumber' + 1))

\* C36: for every window parsePatch calls it with (from
\* lastUUIDChangeLineSeen, or unset, to the cursor plus one), the search of
\* isLineInterfaceRename reads only list indices from 0 to the number of
\* lines of the file minus one, and its loop ends after at most as many
\* iterations as the window has lines.
C36_WindowInsideFile == [][C36_WindowStep]_vars

====
